---- MODULE Spec2Model ----
(***************************************************************************)
(* A model of the MQTT 3.1.1 client of xous-core: the packet codec         *)
(* (libs/mqtt/src/packet.rs), the client protocol state machine            *)
(* (libs/mqtt/src/client.rs), the hosted MQTT thread and the UI thread     *)
(* that shares its state (apps/ccr/src/main.rs), and the events of the     *)
(* application with their queue and JSON reader (apps/ccr/src/events.rs).  *)
(*                                                                         *)
(* Bytes are the integers 0..255, byte strings are sequences of them.      *)
(* Option<T> is <<>> (None) or <<v>> (Some(v)).                            *)
(***************************************************************************)
EXTENDS Integers, Sequences, FiniteSets, TLC

VARIABLES
    auto_reconnect,   \* MqttConfig::auto_reconnect of the client's config
    state,            \* MqttClient::state
    packet_id,        \* MqttClient::packet_id
    rx_buffer,        \* MqttClient::rx_buffer
    event_queue,      \* MqttClient::event_queue
    th_packet_id,     \* MqttThreadState::packet_id (hosted thread state)
    wire,             \* the bytes the broker sent that the transport has yet to deliver
    call,             \* history: the last call made, its input and its result
    inflight,         \* history: the requests issued and not yet acknowledged
    allocs,           \* history: how many packet ids were allocated so far
    tx,               \* the bytes the client has handed to the transport
    sent,             \* history: the bytes given to process_data so far, in order
    emitted,          \* history: the events enqueued by process_data so far, in order
    polled,           \* history: the events poll has returned so far, in order
    events,           \* EventQueue::events, slots 0..MAX_EVENTS-1
    head,             \* EventQueue::head
    tail,             \* EventQueue::tail
    count,            \* EventQueue::count
    pushed,           \* history: the events pushed since new() or the last clear()
    made,             \* history: how many events were pushed in all
    script,           \* which events the application pushes, one after the other
    applied,          \* a function of the codec, the input it is applied to, its result
    running,          \* the AtomicBool mqtt_thread_main is given (CcrApp::mqtt_running)
    mutex,            \* who holds the Mutex around MqttThreadState: "free", "ui", "mqtt"
    mqtt_pc,          \* where mqtt_thread_main is
    ui_pc,            \* where the UI thread is in send_user_input / send_permission_response
    local_id,         \* per thread, the local id of next_packet_id
    th_connected,     \* MqttThreadState::connected
    th_stream,        \* MqttThreadState::stream is Some
    issued,           \* history: <<thread, id>> for every next_packet_id that returned
    sessions,         \* history: how many TCP connections were established
    ui_sends,         \* history: how many sends the UI thread started
    waited,           \* history: the thread slept the retry delay since the last connect
    attempted,        \* history: TcpStream::connect was called before
    stopped_at,       \* history: where the thread was when the flag was cleared
    pending_permission,  \* UiState::pending_permission: <<>> is None, <<id>> is Some(id)
    permission_choice    \* UiState::permission_choice: TRUE is allow

vars == <<auto_reconnect, state, packet_id, rx_buffer, event_queue,
          th_packet_id, wire, call, inflight, allocs, tx, sent, emitted, polled,
          events, head, tail, count, pushed, made, script, applied,
          running, mutex, mqtt_pc, ui_pc, local_id, th_connected, th_stream, issued,
          sessions, ui_sends, waited, attempted, stopped_at,
          pending_permission, permission_choice>>

\* the fields of UiState the permission dialogue uses
ui_vars == <<pending_permission, permission_choice>>

\* the hosted threads: their shared state, their positions, their history
hosted_vars == <<running, mutex, mqtt_pc, ui_pc, local_id, th_connected, th_stream, issued,
                 sessions, ui_sends, waited, attempted, stopped_at>>

\* the fields of an EventQueue, and the history kept about it
queue_vars == <<events, head, tail, count, pushed, made, script>>

\* the history of a byte stream and of the events it produced
stream_vars == <<sent, emitted, polled>>

client_vars == <<state, packet_id, rx_buffer, event_queue>>

-----------------------------------------------------------------------------
(* Bounds of the model.                                                    *)

\* the longest receive accumulator the model lets process_data build
MaxRx == 8
\* the longest event queue the model lets the client build before a poll
MaxQueue == 2
\* the packet ids the lifecycle specification lets the client allocate
MaxPacketId == 2
\* the allocations the counter specification follows (more than one cycle)
MaxIdAllocs == 65540
\* the requests the wrap specification lets stay unacknowledged
MaxInFlight == 2
\* the requests the wrap specification follows before, and again after, the run
MaxAllocs == 2
\* the length of the run of acknowledged requests of the wrap specification
RunLen == 65533
\* the most bytes one read of the transport delivers in the framing specification
MaxChunk == 8
\* the events the queue specification pushes in all (more than the capacity)
MaxPushes == 70

-----------------------------------------------------------------------------
(* u8 / u16 arithmetic.                                                    *)

U16 == 65536

Shr(b, n) == b \div (2 ^ n)
BitSet(b, n) == (b \div (2 ^ n)) % 2 = 1
Hi(v) == (v \div 256) % 256
Lo(v) == v % 256
U16FromBytes(hi, lo) == hi * 256 + lo

Drop(s, n) == SubSeq(s, n + 1, Len(s))
Take(s, n) == SubSeq(s, 1, n)

Min(a, b) == IF a < b THEN a ELSE b

-----------------------------------------------------------------------------
(* packet.rs: types.                                                       *)

Connect == 1
Connack == 2
Publish == 3
Puback == 4
Pubrec == 5
Pubrel == 6
Pubcomp == 7
Subscribe == 8
Suback == 9
Unsubscribe == 10
Unsuback == 11
Pingreq == 12
Pingresp == 13
Disconnect == 14

\* PacketType::from_byte: <<t>> or <<>>
PacketTypeFromByte(byte) ==
    IF Shr(byte, 4) \in 1..14 THEN <<Shr(byte, 4)>> ELSE <<>>

AtMostOnce == 0
AtLeastOnce == 1
ExactlyOnce == 2

\* QoS::from_byte
QoSFromByte(byte) ==
    IF byte % 4 \in 0..2 THEN <<byte % 4>> ELSE <<>>

Accepted == 0

\* ConnackCode::from_byte
ConnackCodeFromByte(byte) ==
    IF byte \in 0..5 THEN <<byte>> ELSE <<>>

-----------------------------------------------------------------------------
(* packet.rs: helper functions.                                            *)

\* the groups of 7 bits decode_remaining_length reads at most (take(4))
MaxLengthBytes == 4

\* an encoding that pads the length 127 with a second byte
encode_remaining_length_padded(len) ==
    IF len = 127 THEN <<255, 0>>
    ELSE IF len < 128 THEN <<len>>
    ELSE <<128 + (len % 128), (len \div 128) % 128>>

\* encode_remaining_length: the bytes pushed for len
RECURSIVE encode_remaining_length(_)
encode_remaining_length(len) ==
    LET byte == len % 128
        rest == len \div 128
    IN  IF rest > 0
        THEN <<byte + 128>> \o encode_remaining_length(rest)
        ELSE <<byte>>

\* the loop of decode_remaining_length, at the i-th byte of data
RECURSIVE DecodeRemainingLengthFrom(_, _, _, _)
DecodeRemainingLengthFrom(data, i, len, multiplier) ==
    IF i > Min(Len(data), MaxLengthBytes)
    THEN <<>>
    ELSE LET byte == data[i]
             len2 == len + (byte % 128) * multiplier
         IN  IF ~BitSet(byte, 7)
             THEN << <<len2, i>> >>
             ELSE DecodeRemainingLengthFrom(data, i + 1, len2, multiplier * 128)

\* decode_remaining_length: << <<len, bytes_consumed>> >> or <<>>
decode_remaining_length(data) == DecodeRemainingLengthFrom(data, 1, 0, 1)

\* encode_string / encode_bytes: 16-bit big-endian length, then the bytes
encode_string(s) == <<Hi(Len(s)), Lo(Len(s))>> \o s

\* core::str::from_utf8(..).is_ok(): well-formed UTF-8 from position i on
IsCont(s, i) == i <= Len(s) /\ s[i] \in 128..191
RECURSIVE ValidUtf8From(_, _)
ValidUtf8From(s, i) ==
    IF i > Len(s) THEN TRUE
    ELSE LET b == s[i] IN
         IF b < 128 THEN ValidUtf8From(s, i + 1)
         ELSE IF b \in 194..223
              THEN IsCont(s, i + 1) /\ ValidUtf8From(s, i + 2)
         ELSE IF b \in 224..239
              THEN /\ IsCont(s, i + 1) /\ IsCont(s, i + 2)
                   /\ (b = 224 => s[i + 1] >= 160)
                   /\ (b = 237 => s[i + 1] <= 159)
                   /\ ValidUtf8From(s, i + 3)
         ELSE IF b \in 240..244
              THEN /\ IsCont(s, i + 1) /\ IsCont(s, i + 2) /\ IsCont(s, i + 3)
                   /\ (b = 240 => s[i + 1] >= 144)
                   /\ (b = 244 => s[i + 1] <= 143)
                   /\ ValidUtf8From(s, i + 4)
         ELSE FALSE

ValidUtf8(s) == ValidUtf8From(s, 1)

\* decode_string: [err |-> e] or [err |-> "", s |-> bytes, consumed |-> n]
decode_string(data) ==
    IF Len(data) < 2 THEN [err |-> "Incomplete"]
    ELSE LET len == U16FromBytes(data[1], data[2]) IN
         IF Len(data) < 2 + len THEN [err |-> "Incomplete"]
         ELSE IF ~ValidUtf8(SubSeq(data, 3, 2 + len)) THEN [err |-> "InvalidUtf8"]
         ELSE [err |-> "", s |-> SubSeq(data, 3, 2 + len), consumed |-> 2 + len]

-----------------------------------------------------------------------------
(* packet.rs: builders.                                                    *)

build_subscribe(pid, topic, qos) ==
    LET var_header == <<Hi(pid), Lo(pid)>>
        payload == encode_string(topic) \o <<qos>>
    IN  <<Subscribe * 16 + 2>>
        \o encode_remaining_length(Len(var_header) + Len(payload))
        \o var_header \o payload

build_unsubscribe(pid, topic) ==
    LET var_header == <<Hi(pid), Lo(pid)>>
        payload == encode_string(topic)
    IN  <<Unsubscribe * 16 + 2>>
        \o encode_remaining_length(Len(var_header) + Len(payload))
        \o var_header \o payload

\* packet_id is an Option<u16>
build_publish_with_id(topic, payload, qos, pid_opt, retain) ==
    LET var_header ==
            encode_string(topic)
            \o (IF pid_opt # <<>> THEN <<Hi(pid_opt[1]), Lo(pid_opt[1])>> ELSE <<>>)
        flags == Publish * 16 + qos * 2 + (IF retain THEN 1 ELSE 0)
    IN  <<flags>>
        \o encode_remaining_length(Len(var_header) + Len(payload))
        \o var_header \o payload

build_publish(topic, payload, qos) ==
    build_publish_with_id(topic, payload, qos, <<>>, FALSE)

build_puback(pid) == <<Puback * 16, 2, Hi(pid), Lo(pid)>>
build_pubrec(pid) == <<Pubrec * 16, 2, Hi(pid), Lo(pid)>>
\* a PUBREL without the reserved flag bits
build_pubrel_no_flags(pid) == <<Pubrel * 16, 2, Hi(pid), Lo(pid)>>
build_pubrel(pid) == <<Pubrel * 16 + 2, 2, Hi(pid), Lo(pid)>>
build_pubcomp(pid) == <<Pubcomp * 16, 2, Hi(pid), Lo(pid)>>
build_pingreq == <<Pingreq * 16, 0>>
build_disconnect == <<Disconnect * 16, 0>>

-----------------------------------------------------------------------------
(* packet.rs: parsers.  A parser's result is [err |-> e] with e one of     *)
(* "Incomplete", "InvalidFormat", "UnknownType", "InvalidUtf8", or         *)
(* [err |-> "", packet |-> p] (parse_packet adds consumed |-> n).          *)

ParseErr(e) == [err |-> e]
ParseOk(p) == [err |-> "", packet |-> p]

parse_connack(data) ==
    IF Len(data) < 2 THEN ParseErr("InvalidFormat")
    ELSE LET code == ConnackCodeFromByte(data[2]) IN
         IF code = <<>> THEN ParseErr("InvalidFormat")
         ELSE ParseOk([type |-> "Connack",
                       session_present |-> BitSet(data[1], 0),
                       code |-> code[1]])

parse_publish(first_byte, data) ==
    LET dup == BitSet(first_byte, 3)
        qos == QoSFromByte(Shr(first_byte, 1) % 4)
        retain == BitSet(first_byte, 0)
        t == decode_string(data)
    IN  IF qos = <<>> THEN ParseErr("InvalidFormat")
        ELSE IF t.err # "" THEN ParseErr(t.err)
        ELSE LET offset == t.consumed IN
             IF qos[1] # AtMostOnce /\ Len(data) < offset + 2
             THEN ParseErr("Incomplete")
             ELSE LET pid_opt ==
                          IF qos[1] # AtMostOnce
                          THEN <<U16FromBytes(data[offset + 1], data[offset + 2])>>
                          ELSE <<>>
                      offset2 == IF qos[1] # AtMostOnce THEN offset + 2 ELSE offset
                  IN  ParseOk([type |-> "Publish",
                               topic |-> t.s,
                               payload |-> Drop(data, offset2),
                               qos |-> qos[1],
                               packet_id |-> pid_opt,
                               retain |-> retain,
                               dup |-> dup])

\* parse_puback, parse_pubrec, parse_pubrel, parse_pubcomp, parse_unsuback
ParseIdOnly(type, data) ==
    IF Len(data) < 2 THEN ParseErr("InvalidFormat")
    ELSE ParseOk([type |-> type, packet_id |-> U16FromBytes(data[1], data[2])])

parse_puback(data) == ParseIdOnly("Puback", data)
parse_pubrec(data) == ParseIdOnly("Pubrec", data)
parse_pubrel(data) == ParseIdOnly("Pubrel", data)
parse_pubcomp(data) == ParseIdOnly("Pubcomp", data)
parse_unsuback(data) == ParseIdOnly("Unsuback", data)

parse_suback(data) ==
    IF Len(data) < 3 THEN ParseErr("InvalidFormat")
    ELSE ParseOk([type |-> "Suback",
                  packet_id |-> U16FromBytes(data[1], data[2]),
                  return_codes |-> Drop(data, 2)])

\* a slice that runs to the end of the buffer
PayloadToEnd(data, header_len, total_len) ==
    SubSeq(data, header_len + 1, Len(data))

\* &data[header_len..total_len]
PayloadSlice(data, header_len, total_len) ==
    SubSeq(data, header_len + 1, total_len)

parse_packet(data) ==
    IF data = <<>> THEN ParseErr("Incomplete")
    ELSE LET first_byte == data[1]
             packet_type == PacketTypeFromByte(first_byte)
         IN
         IF packet_type = <<>> THEN ParseErr("UnknownType")
         ELSE LET rl == decode_remaining_length(Tail(data)) IN
         IF rl = <<>> THEN ParseErr("Incomplete")
         ELSE LET remaining_len == rl[1][1]
                  header_len == 1 + rl[1][2]
                  total_len == header_len + remaining_len
              IN
         IF Len(data) < total_len THEN ParseErr("Incomplete")
         ELSE LET payload == PayloadSlice(data, header_len, total_len)
                  r == CASE packet_type[1] = Connack -> parse_connack(payload)
                         [] packet_type[1] = Publish -> parse_publish(first_byte, payload)
                         [] packet_type[1] = Puback -> parse_puback(payload)
                         [] packet_type[1] = Pubrec -> parse_pubrec(payload)
                         [] packet_type[1] = Pubrel -> parse_pubrel(payload)
                         [] packet_type[1] = Pubcomp -> parse_pubcomp(payload)
                         [] packet_type[1] = Suback -> parse_suback(payload)
                         [] packet_type[1] = Unsuback -> parse_unsuback(payload)
                         [] packet_type[1] = Pingresp -> ParseOk([type |-> "Pingresp"])
                         [] OTHER -> ParseErr("UnknownType")
              IN  IF r.err # "" THEN r
                  ELSE [err |-> "", packet |-> r.packet, consumed |-> total_len]

-----------------------------------------------------------------------------
(* client.rs: MqttEvent values and the record of a call.                   *)

EvConnected == [type |-> "Connected"]
EvDisconnected == [type |-> "Disconnected"]
EvMessage(topic, payload) == [type |-> "Message", topic |-> topic, payload |-> payload]
EvSubscribed(pid) == [type |-> "Subscribed", packet_id |-> pid]
EvPublishAcked(pid) == [type |-> "PublishAcked", packet_id |-> pid]
EvPublishComplete(pid) == [type |-> "PublishComplete", packet_id |-> pid]
EvConnectionRefused(code) == [type |-> "Error", error |-> "ConnectionRefused", code |-> code]

Ok == <<"Ok">>
OkSome(v) == <<"Ok", v>>
ErrNotConnected == <<"Err", "NotConnected">>

\* the call just made: its name, what it returned, the bytes given to
\* process_data and the packets process_data dispatched, in order
Call(op, ret, data, handled) ==
    [op |-> op, ret |-> ret, data |-> data, handled |-> handled]

-----------------------------------------------------------------------------
(* client.rs: MqttClient.                                                  *)

\* a faulty variant of next_packet_id: the wrapping increment alone, without
\* the replacement of 0 by 1 (lines 143-145 left out)
next_packet_id_no_skip(pid) ==
    [id |-> pid, packet_id |-> (pid + 1) % U16]

\* MqttClient::next_packet_id on a counter value: the id returned and the
\* counter left behind
next_packet_id(pid) ==
    LET wrapped == (pid + 1) % U16
    IN  [id |-> pid, packet_id |-> IF wrapped = 0 THEN 1 ELSE wrapped]

\* a faulty variant of connect: the early return of lines 153-155 left out
connect_unchecked ==
    /\ state' = "Connected"
    /\ event_queue' = Append(event_queue, EvConnected)
    /\ UNCHANGED <<packet_id, rx_buffer>>
    /\ call' = Call("connect", Ok, <<>>, <<>>)

\* MqttClient::connect.  Line 157 sets Connecting and line 178, in the same
\* call and with nothing that can fail in between, sets Connected.
connect ==
    /\ IF state # "Disconnected"
       THEN UNCHANGED client_vars
       ELSE /\ state' = "Connected"
            /\ event_queue' = Append(event_queue, EvConnected)
            /\ UNCHANGED <<packet_id, rx_buffer>>
    /\ call' = Call("connect", Ok, <<>>, <<>>)

\* a faulty variant of disconnect: the early return of lines 186-188 left out
disconnect_unchecked ==
    /\ state' = "Disconnected"
    /\ event_queue' = Append(event_queue, EvDisconnected)
    /\ UNCHANGED <<packet_id, rx_buffer>>
    /\ call' = Call("disconnect", Ok, <<>>, <<>>)

\* a faulty variant of disconnect: the state changed and no event enqueued
disconnect_silent ==
    /\ IF state # "Connected"
       THEN UNCHANGED client_vars
       ELSE /\ state' = "Disconnected"
            /\ UNCHANGED <<packet_id, rx_buffer, event_queue>>
    /\ call' = Call("disconnect", Ok, <<>>, <<>>)

\* MqttClient::disconnect
disconnect ==
    /\ IF state # "Connected"
       THEN UNCHANGED client_vars
       ELSE /\ state' = "Disconnected"
            /\ event_queue' = Append(event_queue, EvDisconnected)
            /\ UNCHANGED <<packet_id, rx_buffer>>
    /\ call' = Call("disconnect", Ok, <<>>, <<>>)

\* a faulty variant of subscribe: the state check of lines 201-203 left out
subscribe_unchecked(topic, qos) ==
    LET a == next_packet_id(packet_id) IN
    /\ packet_id' = a.packet_id
    /\ UNCHANGED <<state, rx_buffer, event_queue>>
    /\ call' = Call("subscribe", OkSome(a.id), <<>>, <<>>)

\* MqttClient::subscribe
subscribe(topic, qos) ==
    IF state # "Connected"
    THEN /\ UNCHANGED client_vars
         /\ call' = Call("subscribe", ErrNotConnected, <<>>, <<>>)
    ELSE LET a == next_packet_id(packet_id) IN
         /\ packet_id' = a.packet_id
         /\ UNCHANGED <<state, rx_buffer, event_queue>>
         /\ call' = Call("subscribe", OkSome(a.id), <<>>, <<>>)

\* MqttClient::unsubscribe
unsubscribe(topic) ==
    IF state # "Connected"
    THEN /\ UNCHANGED client_vars
         /\ call' = Call("unsubscribe", ErrNotConnected, <<>>, <<>>)
    ELSE LET a == next_packet_id(packet_id) IN
         /\ packet_id' = a.packet_id
         /\ UNCHANGED <<state, rx_buffer, event_queue>>
         /\ call' = Call("unsubscribe", OkSome(a.id), <<>>, <<>>)

\* a publish that allocates a packet id for every QoS
publish_always_allocates(topic, payload, qos) ==
    IF state # "Connected"
    THEN /\ UNCHANGED client_vars
         /\ call' = Call("publish", ErrNotConnected, <<>>, <<>>)
    ELSE LET a == next_packet_id(packet_id) IN
         /\ packet_id' = a.packet_id
         /\ UNCHANGED <<state, rx_buffer, event_queue>>
         /\ call' = Call("publish", OkSome(a.id),
                         build_publish_with_id(topic, payload, qos, <<a.id>>, FALSE),
                         <<>>)

\* MqttClient::publish: Ok(None) is Ok, Ok(Some(id)) is OkSome(id); the data
\* of the call is the PUBLISH it built (_publish_packet, which it does not
\* hand to a transport)
publish(topic, payload, qos) ==
    IF state # "Connected"
    THEN /\ UNCHANGED client_vars
         /\ call' = Call("publish", ErrNotConnected, <<>>, <<>>)
    ELSE IF qos # AtMostOnce
    THEN LET a == next_packet_id(packet_id) IN
         /\ packet_id' = a.packet_id
         /\ UNCHANGED <<state, rx_buffer, event_queue>>
         /\ call' = Call("publish", OkSome(a.id),
                         build_publish_with_id(topic, payload, qos, <<a.id>>, FALSE),
                         <<>>)
    ELSE /\ UNCHANGED client_vars
         /\ call' = Call("publish", Ok,
                         build_publish_with_id(topic, payload, qos, <<>>, FALSE),
                         <<>>)

\* MqttClient::ping
ping ==
    /\ UNCHANGED client_vars
    /\ call' = Call("ping", IF state # "Connected" THEN ErrNotConnected ELSE Ok,
                    <<>>, <<>>)

\* a faulty variant of poll: pop_back in place of pop_front
poll_newest ==
    /\ IF event_queue = <<>>
       THEN /\ UNCHANGED event_queue
            /\ call' = Call("poll", <<"None">>, <<>>, <<>>)
       ELSE /\ event_queue' = Take(event_queue, Len(event_queue) - 1)
            /\ call' = Call("poll", <<"Some", event_queue[Len(event_queue)]>>,
                            <<>>, <<>>)
    /\ UNCHANGED <<state, packet_id, rx_buffer>>

\* MqttClient::poll: event_queue.pop_front()
poll ==
    /\ IF event_queue = <<>>
       THEN /\ UNCHANGED event_queue
            /\ call' = Call("poll", <<"None">>, <<>>, <<>>)
       ELSE /\ event_queue' = Tail(event_queue)
            /\ call' = Call("poll", <<"Some", Head(event_queue)>>, <<>>, <<>>)
    /\ UNCHANGED <<state, packet_id, rx_buffer>>

\* a handle_packet that drops an inbound QoS-2 PUBLISH whose message the
\* queue already holds
handle_packet_dedup(c, packet) ==
    CASE packet.type = "Connack" ->
            IF packet.code = Accepted
            THEN [state |-> "Connected",
                  event_queue |-> Append(c.event_queue, EvConnected)]
            ELSE [state |-> "Disconnected",
                  event_queue |-> Append(c.event_queue, EvConnectionRefused(packet.code))]
      [] packet.type = "Publish" ->
            IF /\ packet.qos = ExactlyOnce
               /\ \E i \in 1..Len(c.event_queue) :
                     c.event_queue[i] = EvMessage(packet.topic, packet.payload)
            THEN c
            ELSE [c EXCEPT !.event_queue = Append(@, EvMessage(packet.topic, packet.payload))]
      [] packet.type = "Puback" ->
            [c EXCEPT !.event_queue = Append(@, EvPublishAcked(packet.packet_id))]
      [] packet.type = "Pubcomp" ->
            [c EXCEPT !.event_queue = Append(@, EvPublishComplete(packet.packet_id))]
      [] packet.type = "Suback" ->
            [c EXCEPT !.event_queue = Append(@, EvSubscribed(packet.packet_id))]
      [] OTHER -> c

\* a dispatch that handles the packets other than CONNACK in state Connected
\* only
handle_packet_connected_only(c, packet) ==
    IF packet.type # "Connack" /\ c.state # "Connected"
    THEN c
    ELSE handle_packet_dedup(c, packet)

\* MqttClient::handle_packet on the fields it touches:
\* c is [state, event_queue], the result is the same record after the call
handle_packet(c, packet) ==
    CASE packet.type = "Connack" ->
            IF packet.code = Accepted
            THEN [state |-> "Connected",
                  event_queue |-> Append(c.event_queue, EvConnected)]
            ELSE [state |-> "Disconnected",
                  event_queue |-> Append(c.event_queue, EvConnectionRefused(packet.code))]
      [] packet.type = "Publish" ->
            [c EXCEPT !.event_queue = Append(@, EvMessage(packet.topic, packet.payload))]
      [] packet.type = "Puback" ->
            [c EXCEPT !.event_queue = Append(@, EvPublishAcked(packet.packet_id))]
      [] packet.type = "Pubrec" -> c
      [] packet.type = "Pubrel" -> c
      [] packet.type = "Pubcomp" ->
            [c EXCEPT !.event_queue = Append(@, EvPublishComplete(packet.packet_id))]
      [] packet.type = "Suback" ->
            [c EXCEPT !.event_queue = Append(@, EvSubscribed(packet.packet_id))]
      [] packet.type = "Unsuback" -> c
      [] packet.type = "Pingresp" -> c

\* a faulty variant of the parse loop: one parse per call instead of a loop,
\* so packets coalesced behind the first stay in the accumulator
ParseOnce(buf, c, handled) ==
    LET r == parse_packet(buf) IN
    IF r.err = ""
    THEN [rx_buffer |-> Drop(buf, r.consumed), c |-> handle_packet(c, r.packet),
          handled |-> Append(handled, r.packet)]
    ELSE IF r.err = "Incomplete"
    THEN [rx_buffer |-> buf, c |-> c, handled |-> handled]
    ELSE [rx_buffer |-> <<>>, c |-> c, handled |-> handled]

\* the parse loop of MqttClient::process_data (lines 280-293): buf is the
\* accumulator, c is [state, event_queue], handled the packets dispatched so
\* far; the result is what the loop leaves when it breaks
RECURSIVE ParseLoop(_, _, _)
ParseLoop(buf, c, handled) ==
    LET r == parse_packet(buf) IN
    IF r.err = ""
    THEN ParseLoop(Drop(buf, r.consumed), handle_packet(c, r.packet),
                   Append(handled, r.packet))
    ELSE IF r.err = "Incomplete"
    THEN [rx_buffer |-> buf, c |-> c, handled |-> handled]
    ELSE [rx_buffer |-> <<>>, c |-> c, handled |-> handled]

\* a faulty variant of process_data: the new bytes parsed on their own, the
\* accumulator (line 277) left out
process_data_no_accumulate(data) ==
    LET out == ParseLoop(data, [state |-> state, event_queue |-> event_queue], <<>>)
    IN  /\ rx_buffer' = out.rx_buffer
        /\ state' = out.c.state
        /\ event_queue' = out.c.event_queue
        /\ UNCHANGED packet_id
        /\ call' = Call("process_data", Ok, data, out.handled)

\* MqttClient::process_data
process_data(data) ==
    LET out == ParseLoop(rx_buffer \o data,
                         [state |-> state, event_queue |-> event_queue], <<>>)
    IN  /\ rx_buffer' = out.rx_buffer
        /\ state' = out.c.state
        /\ event_queue' = out.c.event_queue
        /\ UNCHANGED packet_id
        /\ call' = Call("process_data", Ok, data, out.handled)

\* A loss of the transport while the client runs.  MqttClient holds no stream
\* (lines 112-113) and has no method that is told of the loss: no field of
\* the client changes, and config.auto_reconnect is never read.
transport_lost ==
    /\ UNCHANGED client_vars
    /\ call' = Call("transport_lost", Ok, <<>>, <<>>)

-----------------------------------------------------------------------------
(* main.rs: MqttThreadState (hosted mode).                                 *)

\* MqttThreadState::next_packet_id on a counter value
th_next_packet_id(pid) ==
    LET wrapped == (pid + 1) % U16
    IN  [id |-> pid, packet_id |-> IF wrapped = 0 THEN 1 ELSE wrapped]

\* a call of MqttThreadState::next_packet_id (under the state mutex)
th_allocate ==
    LET a == th_next_packet_id(th_packet_id) IN
    /\ th_packet_id' = a.packet_id
    /\ call' = Call("th_next_packet_id", OkSome(a.id), <<>>, <<>>)
    /\ UNCHANGED client_vars

-----------------------------------------------------------------------------
(* events.rs: CcrEvent and EventQueue.                                     *)

MAX_EVENTS == 64

\* CcrEvent values: the variant, the request id of the permission variants,
\* and one more field (n) that tells two events of a variant apart
Status(n) == [type |-> "Status", message |-> n]
UserInput(n) == [type |-> "UserInput", text |-> n]
ToolCall(n) == [type |-> "ToolCall", id |-> n]
PermissionPending(rid, n) ==
    [type |-> "PermissionPending", request_id |-> rid, command |-> n]
PermissionResolved(rid, n) ==
    [type |-> "PermissionResolved", request_id |-> rid, decision |-> n]
PermissionTimeout(rid, n) ==
    [type |-> "PermissionTimeout", request_id |-> rid, session_id |-> n]

\* CcrEvent::is_permission_pending
is_permission_pending(e) == e.type = "PermissionPending"

\* CcrEvent::request_id: an Option<&str>
request_id(e) ==
    IF e.type \in {"PermissionPending", "PermissionResolved", "PermissionTimeout"}
    THEN <<e.request_id>>
    ELSE <<>>

\* the EventQueue the variables hold, as one value
EventQueue == [events |-> events, head |-> head, tail |-> tail, count |-> count]

\* a faulty variant of push: the eviction of lines 356-361 left out
push_no_evict(event) ==
    /\ events' = [events EXCEPT ![tail] = <<event>>]
    /\ tail' = (tail + 1) % MAX_EVENTS
    /\ count' = count + 1
    /\ UNCHANGED head

\* a faulty variant of push: the oldest event dropped and head left on its slot
push_head_stays(event) ==
    LET full == count = MAX_EVENTS
        events1 == IF full THEN [events EXCEPT ![head] = <<>>] ELSE events
        count1 == IF full THEN count - 1 ELSE count
    IN  /\ events' = [events1 EXCEPT ![tail] = <<event>>]
        /\ UNCHANGED head
        /\ tail' = (tail + 1) % MAX_EVENTS
        /\ count' = count1 + 1

\* EventQueue::push
push(event) ==
    LET full == count = MAX_EVENTS
        events1 == IF full THEN [events EXCEPT ![head] = <<>>] ELSE events
        head1 == IF full THEN (head + 1) % MAX_EVENTS ELSE head
        count1 == IF full THEN count - 1 ELSE count
    IN  /\ events' = [events1 EXCEPT ![tail] = <<event>>]
        /\ head' = head1
        /\ tail' = (tail + 1) % MAX_EVENTS
        /\ count' = count1 + 1

\* EventQueue::len
len(q) == q.count

\* EventQueue::is_empty
is_empty(q) == q.count = 0

\* a faulty variant of get: the slot index taken for the logical index
get_physical(q, index) ==
    IF index >= q.count THEN <<>> ELSE q.events[index % MAX_EVENTS]

\* EventQueue::get: an Option<&CcrEvent>
get(q, index) ==
    IF index >= q.count
    THEN <<>>
    ELSE q.events[(q.head + index) % MAX_EVENTS]

\* the loop of find_pending_permission, from index i on
RECURSIVE FindPendingFrom(_, _)
FindPendingFrom(q, i) ==
    IF i >= q.count THEN <<>>
    ELSE LET ev == get(q, i) IN
         IF ev # <<>> /\ is_permission_pending(ev[1])
         THEN << <<i, ev[1]>> >>
         ELSE FindPendingFrom(q, i + 1)

\* a faulty variant of find_pending_permission: the newest match returned
find_pending_permission_newest(q) ==
    LET found == {i \in 0..(q.count - 1) :
                     get(q, i) # <<>> /\ is_permission_pending(get(q, i)[1])}
    IN  IF found = {} THEN <<>>
        ELSE LET i == CHOOSE i \in found : \A j \in found : j <= i
             IN  << <<i, get(q, i)[1]>> >>

\* EventQueue::find_pending_permission: an Option<(usize, &CcrEvent)>
find_pending_permission(q) == FindPendingFrom(q, 0)

\* the loop of find_by_request_id, from index i on
RECURSIVE FindByRequestIdFrom(_, _, _)
FindByRequestIdFrom(q, rid, i) ==
    IF i >= q.count THEN <<>>
    ELSE LET ev == get(q, i) IN
         IF ev # <<>> /\ request_id(ev[1]) = <<rid>>
         THEN << <<i, ev[1]>> >>
         ELSE FindByRequestIdFrom(q, rid, i + 1)

\* EventQueue::find_by_request_id: an Option<(usize, &CcrEvent)>
find_by_request_id(q, rid) == FindByRequestIdFrom(q, rid, 0)

\* a clear that resets the indices and leaves the slots as they are
clear_counters_only ==
    /\ events' = events
    /\ head' = 0
    /\ tail' = 0
    /\ count' = 0

\* EventQueue::clear
clear ==
    /\ events' = [i \in 0..(MAX_EVENTS - 1) |-> <<>>]
    /\ head' = 0
    /\ tail' = 0
    /\ count' = 0

-----------------------------------------------------------------------------
(* events.rs: CcrEvent::from_json.  A &str is the sequence of the bytes of *)
(* its UTF-8 encoding; a call returns [panic |-> TRUE] where the code      *)
(* panics.                                                                 *)

MAX_TEXT_LEN == 200

Quote == 34
Backslash == 92

\* the bytes of a key of the JSON object
KeyBytes(k) ==
    CASE k = "type" -> <<116, 121, 112, 101>>
      [] k = "session_id" -> <<115, 101, 115, 115, 105, 111, 110, 95, 105, 100>>
      [] k = "source" -> <<115, 111, 117, 114, 99, 101>>
      [] k = "model" -> <<109, 111, 100, 101, 108>>
      [] k = "reason" -> <<114, 101, 97, 115, 111, 110>>
      [] k = "text" -> <<116, 101, 120, 116>>
      [] k = "id" -> <<105, 100>>
      [] k = "tool" -> <<116, 111, 111, 108>>
      [] k = "args" -> <<97, 114, 103, 115>>
      [] k = "output" -> <<111, 117, 116, 112, 117, 116>>
      [] k = "request_id" -> <<114, 101, 113, 117, 101, 115, 116, 95, 105, 100>>
      [] k = "command" -> <<99, 111, 109, 109, 97, 110, 100>>
      [] k = "decision" -> <<100, 101, 99, 105, 115, 105, 111, 110>>
      [] k = "notification_type" -> <<110, 111, 116, 105, 102, 105, 99, 97, 116, 105, 111, 110, 95, 116, 121, 112, 101>>
      [] k = "message" -> <<109, 101, 115, 115, 97, 103, 101>>

\* str::find: the 1-based index of the first occurrence of pattern in text,
\* or 0
find(text, pattern) ==
    LET hits == {i \in 1..(Len(text) - Len(pattern) + 1) :
                    SubSeq(text, i, i + Len(pattern) - 1) = pattern}
    IN  IF hits = {} THEN 0
        ELSE CHOOSE i \in hits : \A j \in hits : i <= j

\* str::trim_start, for the white space of ASCII
RECURSIVE trim_start(_)
trim_start(s) ==
    IF s # <<>> /\ s[1] \in {9, 10, 11, 12, 13, 32}
    THEN trim_start(Tail(s))
    ELSE s

\* str::is_char_boundary: index (0-based) is the start or the end of s, or
\* the byte there is not a continuation byte
is_char_boundary(s, index) ==
    \/ index = 0
    \/ index = Len(s)
    \/ (index < Len(s) /\ s[index + 1] \notin 128..191)

\* if value.len() > MAX_TEXT_LEN { &value[..MAX_TEXT_LEN] } else { value }:
\* the slice panics when the index is inside a character
truncate_value(value) ==
    IF Len(value) > MAX_TEXT_LEN
    THEN IF is_char_boundary(value, MAX_TEXT_LEN)
         THEN [panic |-> FALSE, s |-> Take(value, MAX_TEXT_LEN)]
         ELSE [panic |-> TRUE]
    ELSE [panic |-> FALSE, s |-> value]

\* the iterations of the loop of unescape_json evaluated in one stretch
UnescapeStretch == 16

\* at most fuel iterations of the loop of unescape_json, from the i-th byte
\* of s with result so far: the position and the result reached.  A
\* character after a backslash that is no escape is pushed after the
\* backslash, so its bytes are copied
RECURSIVE UnescapeSteps(_, _, _, _)
UnescapeSteps(s, i, result, fuel) ==
    IF i > Len(s) \/ fuel = 0 THEN <<i, result>>
    ELSE LET escape == s[i] = Backslash /\ i < Len(s)
             pushed_now ==
                 IF s[i] # Backslash THEN <<s[i]>>
                 ELSE IF i = Len(s) THEN <<Backslash>>
                 ELSE LET c == s[i + 1] IN
                      CASE c = 110 -> <<10>>
                        [] c = 114 -> <<13>>
                        [] c = 116 -> <<9>>
                        [] c = Quote -> <<Quote>>
                        [] c = Backslash -> <<Backslash>>
                        [] c = 47 -> <<47>>
                        [] OTHER -> <<Backslash, c>>
         IN  UnescapeSteps(s, IF escape THEN i + 2 ELSE i + 1,
                           result \o pushed_now, fuel - 1)

\* the loop of unescape_json, stretch after stretch
RECURSIVE UnescapeFrom(_, _, _)
UnescapeFrom(s, i, result) ==
    IF i > Len(s) THEN result
    ELSE LET reached == UnescapeSteps(s, i, result, UnescapeStretch)
         IN  UnescapeFrom(s, reached[1], reached[2])

\* CcrEvent::unescape_json
unescape_json(s) == UnescapeFrom(s, 1, <<>>)

\* an Option<String>, or a panic
NoString == [panic |-> FALSE, some |-> FALSE, s |-> <<>>]
SomeString(s) == [panic |-> FALSE, some |-> TRUE, s |-> s]
Panic == [panic |-> TRUE, some |-> FALSE, s |-> <<>>]

\* CcrEvent::get_json_string
get_json_string(text, key) ==
    LET pattern == <<Quote>> \o key \o <<Quote, 58>>
        start_idx == find(text, pattern)
    IN  IF start_idx = 0 THEN NoString
        ELSE LET after_key == Drop(text, start_idx - 1 + Len(pattern))
                 trimmed == trim_start(after_key)
             IN  IF trimmed # <<>> /\ trimmed[1] = Quote
                 THEN LET close == find(Tail(trimmed), <<Quote>>) IN
                      IF close = 0 THEN NoString
                      ELSE LET value == SubSeq(trimmed, 2, close)
                               truncated == truncate_value(value)
                           IN  IF truncated.panic THEN Panic
                               ELSE SomeString(unescape_json(truncated.s))
                 ELSE NoString

\* the values of "type" from_json knows, the variant each makes and the keys
\* of its fields, in the order the fields are read
Variants ==
    {
      [name |-> <<115, 101, 115, 115, 105, 111, 110, 95, 115, 116, 97, 114, 116>>,
       variant |-> "SessionStart",
       keys |-> <<"session_id", "source", "model">>],
      [name |-> <<115, 101, 115, 115, 105, 111, 110, 95, 101, 110, 100>>,
       variant |-> "SessionEnd",
       keys |-> <<"session_id", "reason">>],
      [name |-> <<115, 116, 111, 112>>,
       variant |-> "Stop",
       keys |-> <<"session_id">>],
      [name |-> <<117, 115, 101, 114, 95, 105, 110, 112, 117, 116>>,
       variant |-> "UserInput",
       keys |-> <<"text", "session_id">>],
      [name |-> <<116, 111, 111, 108, 95, 99, 97, 108, 108>>,
       variant |-> "ToolCall",
       keys |-> <<"id", "tool", "args", "session_id">>],
      [name |-> <<116, 111, 111, 108, 95, 114, 101, 115, 117, 108, 116>>,
       variant |-> "ToolResult",
       keys |-> <<"id", "output", "session_id">>],
      [name |-> <<112, 101, 114, 109, 105, 115, 115, 105, 111, 110, 95, 112, 101, 110, 100, 105, 110, 103>>,
       variant |-> "PermissionPending",
       keys |-> <<"request_id", "tool", "command", "session_id">>],
      [name |-> <<112, 101, 114, 109, 105, 115, 115, 105, 111, 110, 95, 114, 101, 115, 111, 108, 118, 101, 100>>,
       variant |-> "PermissionResolved",
       keys |-> <<"request_id", "decision", "session_id">>],
      [name |-> <<112, 101, 114, 109, 105, 115, 115, 105, 111, 110, 95, 116, 105, 109, 101, 111, 117, 116>>,
       variant |-> "PermissionTimeout",
       keys |-> <<"request_id", "session_id">>],
      [name |-> <<110, 111, 116, 105, 102, 105, 99, 97, 116, 105, 111, 110>>,
       variant |-> "Notification",
       keys |-> <<"notification_type", "message", "session_id">>] }

\* CcrEvent::from_json: [panic |-> TRUE], or an Option<CcrEvent> whose
\* fields are get_json_string(..).unwrap_or_default()
from_json(text) ==
    LET event_type == get_json_string(text, KeyBytes("type")) IN
    IF event_type.panic THEN [panic |-> TRUE]
    ELSE IF ~event_type.some THEN [panic |-> FALSE, event |-> <<>>]
    ELSE LET known == {v \in Variants : v.name = event_type.s} IN
         IF known = {} THEN [panic |-> FALSE, event |-> <<>>]
         ELSE LET v == CHOOSE x \in known : TRUE
                  got == [i \in 1..Len(v.keys) |->
                             get_json_string(text, KeyBytes(v.keys[i]))]
              IN  IF \E i \in 1..Len(v.keys) : got[i].panic
                  THEN [panic |-> TRUE]
                  ELSE [panic |-> FALSE,
                        event |-> << [variant |-> v.variant,
                                      keys |-> v.keys,
                                      values |-> [i \in 1..Len(v.keys) |-> got[i].s]] >>]

-----------------------------------------------------------------------------
(* The lifecycle specification: every call of the client, in any order.    *)

\* CcrApp::new in hosted mode: the flag is set, MqttThreadState::new() is
\* behind a free mutex, the MQTT thread is about to enter its loop
HostedNew ==
    /\ running = TRUE
    /\ mutex = "free"
    /\ mqtt_pc = "while_running"
    /\ ui_pc = "idle"
    /\ local_id = [t \in {"ui", "mqtt"} |-> 0]
    /\ th_connected = FALSE
    /\ th_stream = FALSE
    /\ issued = <<>>
    /\ sessions = 0
    /\ ui_sends = 0
    /\ waited = FALSE
    /\ attempted = FALSE
    /\ stopped_at = "never"

\* UiState::new: no pending permission, the choice on allow
UiNew ==
    /\ pending_permission = <<>>
    /\ permission_choice = TRUE

\* no function of the codec is being applied
Unapplied == applied = [fn |-> "none", input |-> <<>>, output |-> <<>>]

\* EventQueue::new: every slot None, head, tail and count 0
QueueNew ==
    /\ events = [i \in 0..(MAX_EVENTS - 1) |-> <<>>]
    /\ head = 0
    /\ tail = 0
    /\ count = 0
    /\ pushed = <<>>
    /\ made = 0

\* no method of the client writes to a transport (it holds no stream), and
\* none touches an EventQueue
Elsewhere == UNCHANGED <<tx, queue_vars, applied, hosted_vars, ui_vars>>

\* MqttClient::new (packet_id: 1, state Disconnected, empty buffers),
\* MqttThreadState::new (packet_id: 1) and EventQueue::new; the
\* configuration is any
Init ==
    /\ auto_reconnect \in BOOLEAN
    /\ state = "Disconnected"
    /\ packet_id = 1
    /\ rx_buffer = <<>>
    /\ event_queue = <<>>
    /\ th_packet_id = 1
    /\ wire = <<>>
    /\ call = Call("new", Ok, <<>>, <<>>)
    /\ inflight = {}
    /\ allocs = 0
    /\ tx = <<>>
    /\ sent = <<>> /\ emitted = <<>> /\ polled = <<>>
    /\ QueueNew
    /\ script = "status"
    /\ Unapplied
    /\ HostedNew
    /\ UiNew

Topics == {<<116>>}
Payloads == {<<120>>}
QoSLevels == {AtMostOnce, AtLeastOnce, ExactlyOnce}

connack(code) == <<Connack * 16, 2, 0, code>>

\* what the transport delivers in the lifecycle specification: CONNACKs with
\* every return code 0..5 and with the invalid code 6, a CONNACK cut in two,
\* and a PUBACK
LifecycleChunks ==
    {connack(c) : c \in 0..6}
    \cup {Take(connack(0), 2), Drop(connack(0), 2)}
    \cup {build_puback(1)}

\* the variables a step of the client leaves alone
ClientOnly ==
    /\ UNCHANGED <<auto_reconnect, th_packet_id, wire, inflight, allocs>>
    /\ UNCHANGED stream_vars /\ Elsewhere

CanAllocate == state = "Connected" => packet_id <= MaxPacketId
CanEnqueue == Len(event_queue) < MaxQueue

Next ==
    \/ CanEnqueue /\ connect /\ ClientOnly
    \/ CanEnqueue /\ disconnect /\ ClientOnly
    \/ \E topic \in Topics, qos \in QoSLevels :
          CanAllocate /\ subscribe(topic, qos) /\ ClientOnly
    \/ \E topic \in Topics :
          CanAllocate /\ unsubscribe(topic) /\ ClientOnly
    \/ \E topic \in Topics, payload \in Payloads, qos \in QoSLevels :
          CanAllocate /\ publish(topic, payload, qos) /\ ClientOnly
    \/ ping /\ ClientOnly
    \/ poll /\ ClientOnly
    \/ \E data \in LifecycleChunks :
          /\ Len(rx_buffer) + Len(data) <= MaxRx
          /\ process_data(data)
          /\ Len(event_queue') <= MaxQueue
          /\ ClientOnly
    \/ transport_lost /\ ClientOnly

Spec == Init /\ [][Next]_vars

-----------------------------------------------------------------------------
(* The counter specification: one counter, the client's or the hosted      *)
(* thread's, followed through more than a whole cycle of its 16 bits.  The *)
(* hosted application does not use MqttClient, so a run allocates from one *)
(* of the two counters only.                                               *)

\* the call c returned Ok(id) or Ok(Some(id))
ReturnedId(c) == Len(c.ret) = 2 /\ c.ret[1] = "Ok"

\* allocs counts the calls that returned a packet id
CountAllocation ==
    allocs' = IF ReturnedId(call') THEN allocs + 1 ELSE allocs

IdFrame ==
    /\ UNCHANGED <<auto_reconnect, wire, inflight>>
    /\ UNCHANGED stream_vars /\ Elsewhere

IdNext ==
    \/ /\ call.op = "new"
       /\ connect
       /\ CountAllocation /\ IdFrame /\ UNCHANGED th_packet_id
    \/ \E topic \in Topics, qos \in QoSLevels :
          /\ call.op \in {"connect", "subscribe", "publish"}
          /\ allocs < MaxIdAllocs
          /\ subscribe(topic, qos)
          /\ CountAllocation /\ IdFrame /\ UNCHANGED th_packet_id
    \/ \E topic \in Topics, payload \in Payloads, qos \in QoSLevels :
          /\ call.op \in {"connect", "subscribe", "publish"}
          /\ allocs < MaxIdAllocs
          /\ publish(topic, payload, qos)
          /\ CountAllocation /\ IdFrame /\ UNCHANGED th_packet_id
    \/ /\ call.op \in {"new", "th_next_packet_id"}
       /\ allocs < MaxIdAllocs
       /\ th_allocate
       /\ CountAllocation /\ IdFrame

IdSpec == Init /\ [][IdNext]_vars

-----------------------------------------------------------------------------
(* The wrap specification: requests and their acknowledgements, with a     *)
(* long run of acknowledged unsubscribes that takes the counter round.     *)

suback(pid) == <<Suback * 16, 3, Hi(pid), Lo(pid), 0>>
unsuback(pid) == <<Unsuback * 16, 2, Hi(pid), Lo(pid)>>

\* the packet kinds that acknowledge a request issued by op
AckTypes(op) ==
    CASE op = "subscribe" -> {"Suback"}
      [] op = "unsubscribe" -> {"Unsuback"}
      [] op = "publish" -> {"Puback", "Pubcomp"}

\* the oldest request in flight that packet acknowledges, as a set (empty if none)
Acknowledged(reqs, packet) ==
    LET m == {r \in reqs : packet.type \in AckTypes(r.op) /\ packet.packet_id = r.id}
    IN  {r \in m : \A o \in m : r.seq <= o.seq}

RECURSIVE AfterAcks(_, _)
AfterAcks(reqs, handled) ==
    IF handled = <<>> THEN reqs
    ELSE LET p == Head(handled) IN
         AfterAcks(IF p.type \in {"Suback", "Unsuback", "Puback", "Pubcomp"}
                   THEN reqs \ Acknowledged(reqs, p) ELSE reqs,
                   Tail(handled))

\* the history of requests: a call that returned a packet id puts a request
\* in flight, a process_data call takes out the requests it saw acknowledged
TrackRequests ==
    /\ CountAllocation
    /\ inflight' =
         IF ReturnedId(call')
         THEN inflight \cup {[id |-> call'.ret[2], seq |-> allocs + 1, op |-> call'.op]}
         ELSE IF call'.op = "process_data"
         THEN AfterAcks(inflight, call'.handled)
         ELSE inflight

\* n calls of next_packet_id in a row, after a call that returned a: the
\* last of them returns .id and leaves .packet_id in the counter.  (The
\* comparisons with 0 only make TLC compute a value before it is passed on.)
RECURSIVE Advance(_, _)
Advance(a, n) ==
    IF n = 0 THEN a
    ELSE LET before == Advance(a, n \div 2)
             middle == IF before.packet_id > 0 THEN Advance(before, n \div 2) ELSE a
         IN  IF n % 2 = 0 THEN middle
             ELSE IF middle.packet_id > 0 THEN next_packet_id(middle.packet_id) ELSE a

\* RunLen times in a row: unsubscribe(topic), then process_data of the
\* UNSUBACK for the id it returned.  Each pair is the two actions above: the
\* request is in flight between them only, handle_packet enqueues nothing for
\* an UNSUBACK, and the accumulator is empty before and after.  The run
\* leaves the counter RunLen allocations further.
acked_unsubscribe_run ==
    LET a == Advance([id |-> 0, packet_id |-> packet_id], RunLen) IN
    /\ state = "Connected" /\ rx_buffer = <<>>
    /\ packet_id' = a.packet_id
    /\ call' = Call("process_data", Ok, unsuback(a.id),
                    <<[type |-> "Unsuback", packet_id |-> a.id]>>)
    /\ UNCHANGED <<state, rx_buffer, event_queue>>

WrapFrame ==
    /\ UNCHANGED <<auto_reconnect, th_packet_id, wire>>
    /\ UNCHANGED stream_vars /\ Elsewhere

\* the acknowledgements the broker may send for the requests in flight
AckChunks ==
    UNION { CASE r.op = "subscribe" -> {suback(r.id)}
              [] r.op = "unsubscribe" -> {unsuback(r.id)}
              [] r.op = "publish" ->
                    {build_puback(r.id), build_pubrec(r.id), build_pubcomp(r.id)}
            : r \in inflight }

\* acknowledgements a broker may send that answer no request of the client
UnsolicitedChunks == {build_puback(1), build_pubcomp(1)}

\* single requests are followed before the run, which starts after MaxAllocs
\* of them, and again after it
CanRequest ==
    /\ Cardinality(inflight) < MaxInFlight
    /\ \/ allocs < MaxAllocs
       \/ allocs >= RunLen /\ allocs < RunLen + 2 * MaxAllocs

WrapNext ==
    \/ call.op = "new" /\ connect /\ TrackRequests /\ WrapFrame
    \/ \E topic \in Topics :
          CanRequest /\ subscribe(topic, AtLeastOnce) /\ TrackRequests /\ WrapFrame
    \/ \E topic \in Topics :
          CanRequest /\ unsubscribe(topic) /\ TrackRequests /\ WrapFrame
    \/ \E topic \in Topics, payload \in Payloads, qos \in QoSLevels :
          CanRequest /\ publish(topic, payload, qos) /\ TrackRequests /\ WrapFrame
    \/ \E data \in AckChunks \cup UnsolicitedChunks :
          /\ Len(event_queue) < MaxQueue
          /\ process_data(data) /\ TrackRequests /\ WrapFrame
    \/ poll /\ TrackRequests /\ WrapFrame
    \/ /\ allocs = MaxAllocs /\ Cardinality(inflight) < MaxInFlight
       /\ event_queue = <<>>
       /\ acked_unsubscribe_run
       /\ allocs' = allocs + RunLen
       /\ UNCHANGED inflight /\ WrapFrame

\* the default configuration (MqttConfig::default)
WrapInit == Init /\ auto_reconnect

WrapSpec == WrapInit /\ [][WrapNext]_vars

-----------------------------------------------------------------------------
(* The framing specification: process_data fed a byte stream of packets    *)
(* cut at every position, and poll.                                        *)

pingresp == <<Pingresp * 16, 0>>

\* what the broker sends in a run: a stream of packets of every kind the
\* client handles, one of them with an invalid CONNACK code in the middle
FrameStreams ==
    { pingresp \o build_puback(1) \o build_publish(<<116>>, <<120>>, AtMostOnce)
        \o connack(0),
      connack(5) \o suback(1)
        \o build_publish_with_id(<<116>>, <<120>>, AtLeastOnce, <<2>>, FALSE),
      build_pubrec(3) \o build_pubrel(3) \o build_pubcomp(3) \o unsuback(4),
      build_puback(1) \o connack(6) \o pingresp \o build_puback(2),
      \* a QoS-2 PUBLISH and its redelivery (same packet id, DUP set)
      build_publish_with_id(<<116>>, <<120>>, ExactlyOnce, <<9>>, FALSE)
        \o <<Publish * 16 + 8 + 4>>
        \o Tail(build_publish_with_id(<<116>>, <<120>>, ExactlyOnce, <<9>>, FALSE)),
      \* the packets of every kind but PUBLISH behind an accepted CONNACK
      connack(0) \o unsuback(4) \o build_pubrec(3) \o pingresp \o build_pubrel(3)
        \o suback(1) \o build_pubcomp(3) \o build_puback(2) }

\* a new client, and a broker about to send one of streams
StreamInit(streams) ==
    /\ auto_reconnect \in BOOLEAN
    /\ state = "Disconnected"
    /\ packet_id = 1
    /\ rx_buffer = <<>>
    /\ event_queue = <<>>
    /\ th_packet_id = 1
    /\ wire \in streams
    /\ call = Call("new", Ok, <<>>, <<>>)
    /\ inflight = {}
    /\ allocs = 0
    /\ tx = <<>>
    /\ sent = <<>> /\ emitted = <<>> /\ polled = <<>>
    /\ QueueNew
    /\ script = "status"
    /\ Unapplied
    /\ HostedNew
    /\ UiNew

FrameInit == StreamInit(FrameStreams)

\* the history of the stream: the bytes process_data was given, the events
\* it added to the queue, the events poll returned
TrackStream ==
    /\ sent' = IF call'.op = "process_data" THEN sent \o call'.data ELSE sent
    /\ emitted' = IF call'.op = "process_data"
                  THEN emitted \o Drop(event_queue', Len(event_queue))
                  ELSE emitted
    /\ polled' = IF call'.op = "poll" /\ call'.ret[1] = "Some"
                 THEN Append(polled, call'.ret[2])
                 ELSE polled

FrameOnly ==
    /\ UNCHANGED <<auto_reconnect, th_packet_id, inflight, allocs>>
    /\ TrackStream /\ Elsewhere

\* a read of the transport returns the next n bytes of the stream, for any
\* n, and the caller hands them to process_data
deliver(n) ==
    /\ process_data(Take(wire, n))
    /\ wire' = Drop(wire, n)

FrameNext ==
    \/ \E n \in 1..Min(MaxChunk, Len(wire)) :
          /\ deliver(n)
          /\ Len(event_queue') <= MaxQueue
          /\ FrameOnly
    \/ poll /\ FrameOnly /\ UNCHANGED wire

FrameSpec == FrameInit /\ [][FrameNext]_vars

-----------------------------------------------------------------------------
(* The stalled-stream specification: the framing specification on streams  *)
(* that start with a PUBLISH whose fields do not fit its remaining length, *)
(* followed by valid packets.                                              *)

StalledStreams ==
    { \* topic length 5 in a packet whose remaining length is 3
      <<Publish * 16, 3, 0, 5, 116>> \o connack(0) \o build_puback(1),
      \* QoS 1, and no room for the packet identifier after the topic
      <<Publish * 16 + 2, 3, 0, 1, 116>> \o connack(0) \o build_puback(1),
      \* remaining length 0: no room for the length of the topic
      <<Publish * 16, 0>> \o connack(0) \o pingresp \o build_puback(1) }

StalledInit == StreamInit(StalledStreams)

StalledSpec == StalledInit /\ [][FrameNext]_vars

-----------------------------------------------------------------------------
(* The queue specification: an EventQueue that is pushed to beyond its     *)
(* capacity, and cleared.                                                  *)

\* the n-th event (n = 0, 1, ...) the application pushes under a script
NextEvent(sc, n) ==
    CASE sc = "status" -> Status(n)
      [] sc = "early" ->
            CASE n = 1 -> PermissionPending("a", n)
              [] n = 2 -> PermissionPending("b", n)
              [] n = 3 -> PermissionResolved("a", n)
              [] OTHER -> Status(n)
      [] sc = "mixed" ->
            CASE n % 5 = 0 -> ToolCall(n)
              [] n % 5 = 1 -> PermissionPending(IF n % 2 = 0 THEN "a" ELSE "b", n)
              [] n % 5 = 2 -> PermissionResolved("a", n)
              [] n % 5 = 3 -> PermissionTimeout("b", n)
              [] OTHER -> UserInput(n)
      [] sc = "late" ->
            IF n < MAX_EVENTS + 2 THEN Status(n)
            ELSE IF n % 2 = 0 THEN PermissionResolved("b", n)
            ELSE PermissionPending("a", n)

Scripts == {"status", "early", "mixed", "late"}

\* the request ids looked up: two that occur and one that never does
RequestIds == {"a", "b", "c"}

QueueInit ==
    /\ auto_reconnect = TRUE
    /\ state = "Disconnected"
    /\ packet_id = 1
    /\ rx_buffer = <<>>
    /\ event_queue = <<>>
    /\ th_packet_id = 1
    /\ wire = <<>>
    /\ call = Call("new", Ok, <<>>, <<>>)
    /\ inflight = {}
    /\ allocs = 0
    /\ tx = <<>>
    /\ sent = <<>> /\ emitted = <<>> /\ polled = <<>>
    /\ QueueNew
    /\ script \in Scripts
    /\ Unapplied
    /\ HostedNew
    /\ UiNew

QueueOnly ==
    UNCHANGED <<auto_reconnect, client_vars, th_packet_id, wire, call, inflight,
                allocs, tx, stream_vars, script, applied, hosted_vars, ui_vars>>

QueueNext ==
    \/ /\ made < MaxPushes
       /\ push(NextEvent(script, made))
       /\ pushed' = Append(pushed, NextEvent(script, made))
       /\ made' = made + 1
       /\ QueueOnly
    \/ /\ clear
       /\ pushed' = <<>>
       /\ UNCHANGED made
       /\ QueueOnly

QueueSpec == QueueInit /\ [][QueueNext]_vars

-----------------------------------------------------------------------------
(* The codec specification: the functions of packet.rs applied to inputs   *)
(* drawn from bounded sets.  A behaviour draws one input and applies the   *)
(* function to it.                                                         *)

\* the largest length four 7-bit groups hold
MaxRemainingLength == 128 * 128 * 128 * 128 - 1

\* the lengths 0..MaxSmallLen are all encoded
MaxSmallLen == 300
\* the payload that makes the remaining length of a PUBLISH take two bytes
LongPayloadLen == 130
\* the longest byte string put behind a complete packet
MaxExtra == 3

\* the lengths encoded: the small ones, both sides of every change of the
\* number of bytes, and lengths beyond the largest that four bytes hold
Lengths ==
    (0..MaxSmallLen)
    \cup {16382, 16383, 16384, 16385}
    \cup {2097150, 2097151, 2097152, 2097153}
    \cup {MaxRemainingLength - 1, MaxRemainingLength}
    \cup {MaxRemainingLength + 1, MaxRemainingLength + 2, 2147483647}

LongPayload == [i \in 1..LongPayloadLen |-> i % 256]

\* topics: empty, one letter, a path, a two-byte character
CodecTopics == {<<>>, <<116>>, <<116, 47, 120>>, <<195, 169>>}

\* payloads: empty, one and two bytes, bytes that read as a packet id and
\* more, and a long one
CodecPayloads == {<<>>, <<120>>, <<1, 2>>, <<0, 5, 104, 105>>, LongPayload}

\* complete packets of every kind the parser accepts
CompletePackets ==
    { connack(0), connack(5), pingresp,
      build_publish(<<116>>, <<>>, AtMostOnce),
      build_publish(<<116>>, <<120, 121>>, AtMostOnce),
      build_publish_with_id(<<116>>, <<120>>, AtLeastOnce, <<7>>, FALSE),
      build_publish_with_id(<<116>>, <<>>, ExactlyOnce, <<258>>, TRUE),
      build_publish(<<116>>, LongPayload, AtMostOnce),
      build_puback(1), build_pubrec(2), build_pubrel(3), build_pubcomp(4),
      suback(5), <<Suback * 16, 4, 0, 6, 1, 128>>, unsuback(7) }

\* the bytes that follow a packet in a buffer: the start of a PUBLISH, a
\* SUBACK return code, a length byte with the continuation bit, 0 and 255
ExtraBytes == {0, 1, Publish * 16, 128, 255}

RECURSIVE BytesUpTo(_)
BytesUpTo(n) ==
    IF n = 0 THEN {<<>>}
    ELSE BytesUpTo(n - 1)
         \cup {Append(x, b) : x \in {y \in BytesUpTo(n - 1) : Len(y) = n - 1},
                              b \in ExtraBytes}

Input(fn, input) == [fn |-> fn, input |-> input, output |-> <<>>]

CodecInputs ==
    {Input("remaining_length", <<n>>) : n \in Lengths}
    \cup {Input("publish", <<t, p, q>>) :
             t \in CodecTopics, p \in CodecPayloads, q \in QoSLevels}
    \cup {Input("followed", <<P, X>>) :
             P \in CompletePackets, X \in BytesUpTo(MaxExtra)}

\* every variable but applied is as after construction
CodecInit ==
    /\ auto_reconnect = TRUE
    /\ state = "Disconnected"
    /\ packet_id = 1
    /\ rx_buffer = <<>>
    /\ event_queue = <<>>
    /\ th_packet_id = 1
    /\ wire = <<>>
    /\ call = Call("new", Ok, <<>>, <<>>)
    /\ inflight = {}
    /\ allocs = 0
    /\ tx = <<>>
    /\ sent = <<>> /\ emitted = <<>> /\ polled = <<>>
    /\ QueueNew
    /\ script = "status"
    /\ HostedNew
    /\ UiNew
    /\ applied \in CodecInputs

CodecOnly ==
    UNCHANGED <<auto_reconnect, client_vars, th_packet_id, wire, call, inflight,
                allocs, tx, stream_vars, queue_vars, hosted_vars, ui_vars>>

Pending(fn) == applied.fn = fn /\ applied.output = <<>>

\* encode_remaining_length pushes bytes for every len (it has no failing
\* path), and decode_remaining_length reads them back
apply_remaining_length ==
    /\ Pending("remaining_length")
    /\ LET bytes == encode_remaining_length(applied.input[1]) IN
       applied' = [applied EXCEPT !.output =
                      << [failed |-> FALSE,
                          bytes |-> bytes,
                          decoded |-> decode_remaining_length(bytes)] >>]

\* build_publish, and parse_packet of what it built
apply_publish ==
    /\ Pending("publish")
    /\ LET bytes == build_publish(applied.input[1], applied.input[2],
                                  applied.input[3]) IN
       applied' = [applied EXCEPT !.output =
                      << [bytes |-> bytes, parsed |-> parse_packet(bytes)] >>]

\* parse_packet of a complete packet, alone and followed by more bytes
apply_followed ==
    /\ Pending("followed")
    /\ applied' = [applied EXCEPT !.output =
                      << [alone |-> parse_packet(applied.input[1]),
                          followed |-> parse_packet(applied.input[1]
                                                    \o applied.input[2])] >>]

CodecNext ==
    \/ apply_remaining_length /\ CodecOnly
    \/ apply_publish /\ CodecOnly
    \/ apply_followed /\ CodecOnly

CodecSpec == CodecInit /\ [][CodecNext]_vars

-----------------------------------------------------------------------------
(* The acknowledgement specification: the four builders of 4-byte packets  *)
(* applied to every 16-bit packet identifier.                              *)

AckBuilders == {"puback", "pubrec", "pubrel", "pubcomp"}

build_ack(kind, pid) ==
    CASE kind = "puback" -> build_puback(pid)
      [] kind = "pubrec" -> build_pubrec(pid)
      [] kind = "pubrel" -> build_pubrel(pid)
      [] kind = "pubcomp" -> build_pubcomp(pid)

AckInit ==
    /\ auto_reconnect = TRUE
    /\ state = "Disconnected"
    /\ packet_id = 1
    /\ rx_buffer = <<>>
    /\ event_queue = <<>>
    /\ th_packet_id = 1
    /\ wire = <<>>
    /\ call = Call("new", Ok, <<>>, <<>>)
    /\ inflight = {}
    /\ allocs = 0
    /\ tx = <<>>
    /\ sent = <<>> /\ emitted = <<>> /\ polled = <<>>
    /\ QueueNew
    /\ script = "status"
    /\ HostedNew
    /\ UiNew
    /\ applied \in {Input(kind, <<pid>>) : kind \in AckBuilders, pid \in 0..(U16 - 1)}

\* a builder of a 4-byte packet, and parse_packet of what it built
apply_ack ==
    /\ applied.fn \in AckBuilders
    /\ applied.output = <<>>
    /\ LET bytes == build_ack(applied.fn, applied.input[1]) IN
       applied' = [applied EXCEPT !.output =
                      << [bytes |-> bytes, parsed |-> parse_packet(bytes)] >>]

AckNext == apply_ack /\ CodecOnly

AckSpec == AckInit /\ [][AckNext]_vars

-----------------------------------------------------------------------------
(* The hosted specification: mqtt_thread_main and the UI thread of         *)
(* apps/ccr/src/main.rs, sharing MqttThreadState behind a mutex.  A call   *)
(* of next_packet_id is two steps, the read of the counter into id and the *)
(* write of the counter, so that what the mutex excludes can be seen.      *)

\* the TCP connections the broker accepts in a behaviour
MaxSessions == 2
\* the sends the UI thread makes in a behaviour
MaxUiSends == 2

\* a lock that does not wait for the mutex to be free
lock_unguarded(t) == mutex' = t

\* Mutex::lock by thread t: waits until the mutex is free
lock(t) == mutex = "free" /\ mutex' = t

\* the MutexGuard goes out of scope
unlock == mutex' = "free"

\* a poll loop that does not read the flag
keep_polling_always == TRUE

\* the condition of the poll loop: while running.load(SeqCst)
keep_polling == running

\* next_packet_id, line 101: let id = self.packet_id
load_id(t) == local_id' = [local_id EXCEPT ![t] = th_packet_id]

\* next_packet_id, lines 102-106: the counter is advanced and id returned
store_id(t) ==
    /\ th_packet_id' = th_next_packet_id(th_packet_id).packet_id
    /\ issued' = Append(issued, <<t, local_id[t]>>)

MqttAt(l) == mqtt_pc = l
Goto(l) == mqtt_pc' = l

\* what a step of the MQTT thread leaves alone besides what it names
MqttKeeps == UNCHANGED <<running, ui_pc, ui_sends, stopped_at>>

\* while running.load(SeqCst) (line 709), and the exit below the loop
while_running ==
    /\ MqttAt("while_running")
    /\ Goto(IF running THEN "connect" ELSE "exited")
    /\ UNCHANGED <<mutex, local_id, th_connected, th_stream, issued, sessions, waited,
                   attempted, th_packet_id>>
    /\ MqttKeeps

\* TcpStream::connect(broker) (line 711): Ok, or Err (lines 840-842)
tcp_connect ==
    /\ MqttAt("connect")
    /\ \E ok \in BOOLEAN :
          /\ ok => sessions < MaxSessions
          /\ Goto(IF ok THEN "send_connect" ELSE "retry_check")
          /\ sessions' = IF ok THEN sessions + 1 ELSE sessions
    /\ attempted' = TRUE
    /\ waited' = FALSE
    /\ UNCHANGED <<mutex, local_id, th_connected, th_stream, issued, th_packet_id>>
    /\ MqttKeeps

\* the timeouts are set and CONNECT is written (lines 716-726)
send_connect ==
    /\ MqttAt("send_connect")
    /\ \E ok \in BOOLEAN : Goto(IF ok THEN "read_connack" ELSE "error_sleep")
    /\ UNCHANGED <<mutex, local_id, th_connected, th_stream, issued, sessions, waited,
                   attempted, th_packet_id>>
    /\ MqttKeeps

\* read_exact of the CONNACK (lines 729-745): accepted, rejected, or an
\* error of the read (its timeout included)
read_connack ==
    /\ MqttAt("read_connack")
    /\ \E r \in {"accepted", "rejected", "error"} :
          Goto(IF r = "accepted" THEN "lock_subscribe" ELSE "error_sleep")
    /\ UNCHANGED <<mutex, local_id, th_connected, th_stream, issued, sessions, waited,
                   attempted, th_packet_id>>
    /\ MqttKeeps

\* sleep(5 s); continue (lines 723-725, 735-737, 741-743)
error_sleep ==
    /\ MqttAt("error_sleep")
    /\ waited' = TRUE
    /\ Goto("while_running")
    /\ UNCHANGED <<mutex, local_id, th_connected, th_stream, issued, sessions, attempted,
                   th_packet_id>>
    /\ MqttKeeps

\* let mut st = state.lock().unwrap() (line 749)
lock_subscribe ==
    /\ MqttAt("lock_subscribe")
    /\ lock("mqtt")
    /\ Goto("sub1_load")
    /\ UNCHANGED <<local_id, th_connected, th_stream, issued, sessions, waited, attempted,
                   th_packet_id>>
    /\ MqttKeeps

\* st.next_packet_id() (lines 752, 762), its read
sub_load ==
    /\ \E k \in {"sub1", "sub2"} :
          MqttAt(k \o "_load") /\ Goto(k \o "_store")
    /\ load_id("mqtt")
    /\ UNCHANGED <<mutex, th_connected, th_stream, issued, sessions, waited, attempted,
                   th_packet_id>>
    /\ MqttKeeps

\* st.next_packet_id() (lines 752, 762), its write and return
sub_store ==
    /\ \E k \in {"sub1", "sub2"} :
          MqttAt(k \o "_store") /\ Goto(k \o "_write")
    /\ store_id("mqtt")
    /\ UNCHANGED <<mutex, local_id, th_connected, th_stream, sessions, waited, attempted>>
    /\ MqttKeeps

\* write_all of a SUBSCRIBE (lines 753-759, 763-769); a failure continues
\* the outer loop; leaving the block drops the guard (line 770)
sub_write ==
    /\ \E ok \in BOOLEAN :
          \/ /\ MqttAt("sub1_write")
             /\ IF ok THEN Goto("sub2_load") /\ UNCHANGED mutex
                      ELSE Goto("while_running") /\ unlock
          \/ /\ MqttAt("sub2_write")
             /\ Goto(IF ok THEN "set_connected" ELSE "while_running")
             /\ unlock
    /\ UNCHANGED <<local_id, th_connected, th_stream, issued, sessions, waited, attempted,
                   th_packet_id>>
    /\ MqttKeeps

\* a flag set without the stream
set_connected_flag_only ==
    /\ MqttAt("set_connected")
    /\ lock("mqtt")
    /\ th_connected' = TRUE
    /\ Goto("set_connected_flag")
    /\ UNCHANGED <<local_id, th_stream, issued, sessions, waited, attempted,
                   th_packet_id>>
    /\ MqttKeeps

\* state.lock() and st.stream = Some(stream.try_clone()) (lines 774-775)
set_connected ==
    /\ MqttAt("set_connected")
    /\ lock("mqtt")
    /\ th_stream' = TRUE
    /\ Goto("set_connected_flag")
    /\ UNCHANGED <<local_id, th_connected, issued, sessions, waited, attempted,
                   th_packet_id>>
    /\ MqttKeeps

\* st.connected = true, and the guard goes out of scope (lines 776-777)
set_connected_flag ==
    /\ MqttAt("set_connected_flag")
    /\ th_connected' = TRUE
    /\ unlock
    /\ Goto("poll_while")
    /\ UNCHANGED <<local_id, th_stream, issued, sessions, waited, attempted,
                   th_packet_id>>
    /\ MqttKeeps

\* while running.load(SeqCst) of the poll loop (line 785)
poll_while ==
    /\ MqttAt("poll_while")
    /\ Goto(IF keep_polling THEN "poll_read" ELSE "disconnected")
    /\ UNCHANGED <<mutex, local_id, th_connected, th_stream, issued, sessions, waited,
                   attempted, th_packet_id>>
    /\ MqttKeeps

\* stream.read (lines 787-814): the broker closed, data, a timeout of the
\* read, or an error
poll_read ==
    /\ MqttAt("poll_read")
    /\ \E r \in {"closed", "data", "timeout", "error"} :
          Goto(IF r \in {"closed", "error"} THEN "disconnected" ELSE "poll_ping")
    /\ UNCHANGED <<mutex, local_id, th_connected, th_stream, issued, sessions, waited,
                   attempted, th_packet_id>>
    /\ MqttKeeps

\* the ping (lines 817-826): not due, sent, or its write failed
poll_ping ==
    /\ MqttAt("poll_ping")
    /\ \E r \in {"not_due", "sent", "failed"} :
          Goto(IF r = "failed" THEN "disconnected" ELSE "poll_sleep")
    /\ UNCHANGED <<mutex, local_id, th_connected, th_stream, issued, sessions, waited,
                   attempted, th_packet_id>>
    /\ MqttKeeps

\* sleep(50 ms) at the end of the poll loop (line 828)
poll_sleep ==
    /\ MqttAt("poll_sleep")
    /\ Goto("poll_while")
    /\ UNCHANGED <<mutex, local_id, th_connected, th_stream, issued, sessions, waited,
                   attempted, th_packet_id>>
    /\ MqttKeeps

\* below the poll loop: state.lock() and st.stream = None (lines 833-834)
disconnected ==
    /\ MqttAt("disconnected")
    /\ lock("mqtt")
    /\ th_stream' = FALSE
    /\ Goto("disconnected_flag")
    /\ UNCHANGED <<local_id, th_connected, issued, sessions, waited, attempted,
                   th_packet_id>>
    /\ MqttKeeps

\* st.connected = false, and the guard goes out of scope (lines 835-836)
disconnected_flag ==
    /\ MqttAt("disconnected_flag")
    /\ th_connected' = FALSE
    /\ unlock
    /\ Goto("retry_check")
    /\ UNCHANGED <<local_id, th_stream, issued, sessions, waited, attempted,
                   th_packet_id>>
    /\ MqttKeeps

\* if running.load(SeqCst) before the retry wait (line 846)
retry_check ==
    /\ MqttAt("retry_check")
    /\ Goto(IF running THEN "retry_sleep" ELSE "while_running")
    /\ UNCHANGED <<mutex, local_id, th_connected, th_stream, issued, sessions, waited,
                   attempted, th_packet_id>>
    /\ MqttKeeps

\* sleep(5 s), the wait before a retry (line 847)
retry_sleep ==
    /\ MqttAt("retry_sleep")
    /\ waited' = TRUE
    /\ Goto("while_running")
    /\ UNCHANGED <<mutex, local_id, th_connected, th_stream, issued, sessions, attempted,
                   th_packet_id>>
    /\ MqttKeeps

\* a step of mqtt_thread_main
mqtt_thread_main ==
    \/ while_running \/ tcp_connect \/ send_connect \/ read_connack
    \/ error_sleep \/ lock_subscribe \/ sub_load \/ sub_store \/ sub_write
    \/ set_connected \/ set_connected_flag
    \/ poll_while \/ poll_read \/ poll_ping \/ poll_sleep
    \/ disconnected \/ disconnected_flag \/ retry_check \/ retry_sleep

\* what a step of the UI thread leaves alone besides what it names
UiKeeps ==
    UNCHANGED <<running, mqtt_pc, th_connected, th_stream, sessions, waited, attempted,
                stopped_at>>

\* send_user_input / send_permission_response: self.mqtt_state.lock()
\* (lines 368, 410)
ui_lock ==
    /\ ui_pc = "idle"
    /\ ui_sends < MaxUiSends
    /\ lock("ui")
    /\ ui_pc' = "ui_load"
    /\ ui_sends' = ui_sends + 1
    /\ UNCHANGED <<local_id, issued, th_packet_id>>
    /\ UiKeeps

\* state.next_packet_id() (lines 369, 411), its read
ui_load ==
    /\ ui_pc = "ui_load"
    /\ load_id("ui")
    /\ ui_pc' = "ui_store"
    /\ UNCHANGED <<mutex, issued, ui_sends, th_packet_id>>
    /\ UiKeeps

\* state.next_packet_id() (lines 369, 411), its write and return
ui_store ==
    /\ ui_pc = "ui_store"
    /\ store_id("ui")
    /\ ui_pc' = "ui_write"
    /\ UNCHANGED <<mutex, local_id, ui_sends>>
    /\ UiKeeps

\* the PUBLISH is written if there is a stream, its result is dropped, and
\* the guard goes out of scope (lines 370-380, 412-422)
ui_write ==
    /\ ui_pc = "ui_write"
    /\ unlock
    /\ ui_pc' = "idle"
    /\ UNCHANGED <<local_id, issued, ui_sends, th_packet_id>>
    /\ UiKeeps

\* a step of the UI thread while it holds the mutex
ui_holding == ui_load \/ ui_store \/ ui_write

\* the holder of CcrApp::mqtt_running clears the flag
stop ==
    /\ running
    /\ running' = FALSE
    /\ stopped_at' = mqtt_pc
    /\ UNCHANGED <<mutex, mqtt_pc, ui_pc, local_id, th_connected, th_stream, issued,
                   sessions, ui_sends, waited, attempted, th_packet_id>>

HostedOnly ==
    UNCHANGED <<auto_reconnect, client_vars, wire, call, inflight, allocs, tx,
                stream_vars, queue_vars, applied, ui_vars>>

HostedNext ==
    \/ mqtt_thread_main /\ HostedOnly
    \/ ui_lock /\ HostedOnly
    \/ ui_holding /\ HostedOnly
    \/ stop /\ HostedOnly

HostedInit == Init /\ auto_reconnect

HostedSpec == HostedInit /\ [][HostedNext]_vars

\* the scheduler lets the MQTT thread run whenever it can, and lets the UI
\* thread finish the send it holds the mutex for
HostedFairSpec ==
    /\ HostedSpec
    /\ WF_vars(mqtt_thread_main /\ HostedOnly)
    /\ WF_vars(ui_holding /\ HostedOnly)

-----------------------------------------------------------------------------
(* The JSON specification: from_json applied to payloads whose string      *)
(* field is around MAX_TEXT_LEN bytes long, plain and with a multi-byte    *)
(* character or an escape at every place around the cut.                   *)

\* how far beyond MAX_TEXT_LEN the values go
MaxOver == 6

\* n bytes 'a'
Letters(n) == [i \in 1..n |-> 97]

\* what is put into a value: nothing, a two-byte and a three-byte character,
\* an escaped line feed, an escaped quote, an escaped backslash
Insertions ==
    {<<>>, <<195, 169>>, <<226, 130, 172>>, <<Backslash, 110>>,
     <<Backslash, Quote>>, <<Backslash, Backslash>>}

\* the escapes of a JSON string that unescape_json replaces (\n \r \t \" \\
\* \/), and two it does not (\x, \b)
Escapes ==
    {<<Backslash, c>> : c \in {110, 114, 116, Quote, Backslash, 47, 120, 98}}

\* short values: an escape at the start, in the middle and at the end, and
\* two escapes in a row
EscapedValues ==
    {Letters(n) \o e \o Letters(m) : n \in {0, 2}, m \in {0, 2}, e \in Escapes}
    \cup {e \o f : e \in Escapes, f \in {<<Backslash, Quote>>, <<Backslash, 110>>}}

\* the values of the string field: letters with one insertion at a place
\* from a few bytes before the cut to a few after it, in all up to MaxOver
\* bytes longer than MAX_TEXT_LEN; and short values
JsonValues ==
    {Letters(at) \o ins \o Letters(total - at - Len(ins)) :
        ins \in Insertions,
        at \in (MAX_TEXT_LEN - MaxOver)..(MAX_TEXT_LEN + 1),
        total \in {MAX_TEXT_LEN + 2, MAX_TEXT_LEN + MaxOver}}
    \cup {Letters(n) \o ins : n \in {0, 3, MAX_TEXT_LEN - 2}, ins \in Insertions}
    \cup EscapedValues

\* the payloads: {"type":"user_input","text":"<value>","session_id":"s"} and
\* {"type":"tool_result", "id":"i","output": "<value>"}
JsonTexts(value) ==
    { <<123>> \o <<Quote>> \o KeyBytes("type") \o <<Quote, 58, Quote>>
        \o <<117, 115, 101, 114, 95, 105, 110, 112, 117, 116>> \o <<Quote, 44, Quote>> \o KeyBytes("text")
        \o <<Quote, 58, Quote>> \o value \o <<Quote, 44, Quote>>
        \o KeyBytes("session_id") \o <<Quote, 58, Quote, 115, Quote, 125>>,
      <<123>> \o <<Quote>> \o KeyBytes("type") \o <<Quote, 58, Quote>>
        \o <<116, 111, 111, 108, 95, 114, 101, 115, 117, 108, 116>> \o <<Quote, 44, 32, Quote>> \o KeyBytes("id")
        \o <<Quote, 58, Quote, 105, Quote, 44, Quote>> \o KeyBytes("output")
        \o <<Quote, 58, 32, Quote>> \o value \o <<Quote, 125>> }

JsonInit ==
    /\ auto_reconnect = TRUE
    /\ state = "Disconnected"
    /\ packet_id = 1
    /\ rx_buffer = <<>>
    /\ event_queue = <<>>
    /\ th_packet_id = 1
    /\ wire = <<>>
    /\ call = Call("new", Ok, <<>>, <<>>)
    /\ inflight = {}
    /\ allocs = 0
    /\ tx = <<>>
    /\ sent = <<>> /\ emitted = <<>> /\ polled = <<>>
    /\ QueueNew
    /\ script = "status"
    /\ HostedNew
    /\ UiNew
    /\ \E value \in JsonValues :
          applied \in {Input("from_json", <<text, value>>) : text \in JsonTexts(value)}

\* CcrEvent::from_json of the payload
apply_from_json ==
    /\ Pending("from_json")
    /\ applied' = [applied EXCEPT !.output = <<from_json(applied.input[1])>>]

JsonNext == apply_from_json /\ CodecOnly

JsonSpec == JsonInit /\ [][JsonNext]_vars

-----------------------------------------------------------------------------
(* The read specification: the poll loop of the hosted thread reading a    *)
(* stream of packets from the broker, each read returning the next bytes   *)
(* of the stream, any number of them up to the size of the read buffer.    *)

\* the size of read_buf
ReadBufLen == 2048

\* mqtt.rs decode_remaining_length from byte i of data on: <<>> is None,
\* << <<len, bytes_consumed>> >> is Some
RECURSIVE MqttDecodeFrom(_, _, _, _)
MqttDecodeFrom(data, i, acc, multiplier) ==
    IF i > Min(Len(data), 4)
    THEN <<>>
    ELSE LET len2 == acc + (data[i] % 128) * multiplier IN
         IF data[i] < 128
         THEN << <<len2, i>> >>
         ELSE MqttDecodeFrom(data, i + 1, len2, multiplier * 128)

mqtt_decode_remaining_length(data) == MqttDecodeFrom(data, 1, 0, 1)

\* mqtt.rs packet_type
packet_type(byte) == Shr(byte, 4)

\* mqtt.rs parse_publish_packet: <<>> is None, <<[topic, payload]>> is Some;
\* the remaining length is decoded and not used
parse_publish_packet(packet) ==
    IF packet = <<>> \/ packet_type(packet[1]) # Publish THEN <<>>
    ELSE LET d == mqtt_decode_remaining_length(Drop(packet, 1)) IN
         IF d = <<>> THEN <<>>
         ELSE LET offset == 1 + d[1][2] IN
              IF offset + 2 > Len(packet) THEN <<>>
              ELSE LET topic_len == U16FromBytes(packet[offset + 1], packet[offset + 2]) IN
                   IF offset + 2 + topic_len > Len(packet) THEN <<>>
                   ELSE LET topic == SubSeq(packet, offset + 3, offset + 2 + topic_len) IN
                        IF ~ValidUtf8From(topic, 1) THEN <<>>
                        ELSE << [topic |-> topic,
                                 payload |-> Drop(packet, offset + 2 + topic_len)] >>

\* String::from_utf8_lossy on a payload: a byte that starts no well-formed
\* sequence becomes U+FFFD (EF BF BD).  The payloads of the model are ASCII
\* with single bytes of 128 and more between them.
RECURSIVE from_utf8_lossy(_)
from_utf8_lossy(bytes) ==
    IF bytes = <<>> THEN <<>>
    ELSE IF Head(bytes) < 128
         THEN <<Head(bytes)>> \o from_utf8_lossy(Tail(bytes))
         ELSE <<239, 191, 189>> \o from_utf8_lossy(Tail(bytes))

\* what the broker sends: PUBLISH packets of QoS 0, the QoS of the two
\* subscriptions, alone, one after the other, and among other packets
ReadStreams ==
    { build_publish(<<116>>, <<120, 121, 122>>, AtMostOnce),
      build_publish(<<116>>, <<120>>, AtMostOnce)
        \o build_publish(<<117>>, <<121, 122>>, AtMostOnce),
      suback(1) \o suback(2) \o build_publish(<<116>>, <<120, 121>>, AtMostOnce)
        \o pingresp \o build_publish(<<117>>, <<>>, AtMostOnce),
      build_publish(<<116>>, <<120, 255>>, AtMostOnce) \o pingresp }

ReadInit == StreamInit(ReadStreams)

\* one pass of the poll loop whose read returns n bytes (Ok(n), n > 0): the
\* buffer read is parsed as one packet and a PUBLISH is forwarded to the main
\* loop (send_mqtt_message_to_main); emitted is what was forwarded
read_and_forward(n) ==
    LET data == Take(wire, n)
        parsed == parse_publish_packet(data)
    IN  /\ wire' = Drop(wire, n)
        /\ sent' = sent \o data
        /\ emitted' = IF parsed # <<>>
                      THEN Append(emitted, [topic |-> parsed[1].topic,
                                            payload |-> from_utf8_lossy(parsed[1].payload)])
                      ELSE emitted

ReadOnly ==
    /\ UNCHANGED <<auto_reconnect, th_packet_id, inflight, allocs, call, polled>>
    /\ UNCHANGED client_vars /\ Elsewhere

ReadNext ==
    \E n \in 1..Min(ReadBufLen, Len(wire)) : read_and_forward(n) /\ ReadOnly

ReadSpec == ReadInit /\ [][ReadNext]_vars

-----------------------------------------------------------------------------
(* The application specification: the main loop of CcrApp handling the     *)
(* events of a script, and the user answering a permission request or      *)
(* sending a line, while the MQTT thread sets up and drops the stream.     *)
(* The session id, the view and the scroll position are not followed.      *)

\* how many lines the user enters in a run
MaxAppSends == 1

\* the events of the broker that handle_event is given in a run
AppScripts == {"early", "mixed"}

\* "ccr/permissions/response" and "ccr/user_input"
TOPIC_PERM_RESPONSE ==
    <<99, 99, 114, 47, 112, 101, 114, 109, 105, 115, 115, 105, 111, 110, 115, 47,
      114, 101, 115, 112, 111, 110, 115, 101>>
TOPIC_USER_INPUT ==
    <<99, 99, 114, 47, 117, 115, 101, 114, 95, 105, 110, 112, 117, 116>>

\* mqtt.rs encode_remaining_length
RECURSIVE mqtt_encode_remaining_length(_)
mqtt_encode_remaining_length(n) ==
    IF n \div 128 > 0
    THEN <<(n % 128) + 128>> \o mqtt_encode_remaining_length(n \div 128)
    ELSE <<n % 128>>

\* mqtt.rs build_publish_packet: a PUBLISH of QoS 1
build_publish_packet(topic, payload, pid) ==
    LET var_header == <<Hi(Len(topic)), Lo(Len(topic))>> \o topic \o <<Hi(pid), Lo(pid)>>
    IN  <<Publish * 16 + 2>>
          \o mqtt_encode_remaining_length(Len(var_header) + Len(payload))
          \o var_header \o payload

\* the bytes of a request id, and of "allow" and "deny"
RidBytes(rid) == IF rid = "a" THEN <<97>> ELSE <<98>>
DecisionBytes(allow) ==
    IF allow THEN <<97, 108, 108, 111, 119>> ELSE <<100, 101, 110, 121>>

\* format!(r#"{{"request_id":"{}","decision":"{}"}}"#, request_id, decision)
ResponsePayload(rid, allow) ==
    <<123, Quote>> \o KeyBytes("request_id") \o <<Quote, 58, Quote>> \o RidBytes(rid)
      \o <<Quote, 44, Quote>> \o KeyBytes("decision") \o <<Quote, 58, Quote>>
      \o DecisionBytes(allow) \o <<Quote, 125>>

\* format!(r#"{{"session_id":"{}","text":"{}"}}"#, ..) for an empty session
\* id and the text "x"
InputPayload ==
    <<123, Quote>> \o KeyBytes("session_id") \o <<Quote, 58, Quote, Quote, 44, Quote>>
      \o KeyBytes("text") \o <<Quote, 58, Quote, 120, Quote, 125>>

\* the event is pushed, and the history of the queue follows
push_tracked(event) ==
    /\ push(event)
    /\ pushed' = Append(pushed, event)
    /\ made' = made + 1

\* the block that publishes: next_packet_id under the lock, and if there is
\* a stream write_all and flush, whose results are dropped (let _ =); a
\* write that fails leaves nothing on the stream
publish_if_stream(topic, payload) ==
    /\ th_packet_id' = th_next_packet_id(th_packet_id).packet_id
    /\ \E written \in BOOLEAN :
          /\ written => th_stream
          /\ tx' = IF written
                   THEN tx \o build_publish_packet(topic, payload, th_packet_id)
                   ELSE tx

\* CcrApp::handle_event
handle_event(event) ==
    LET pending1 == IF event.type = "PermissionPending"
                    THEN <<event.request_id>> ELSE pending_permission
        resolves == /\ event.type \in {"PermissionResolved", "PermissionTimeout"}
                    /\ pending1 = <<event.request_id>>
    IN  /\ pending_permission' = IF resolves THEN <<>> ELSE pending1
        /\ permission_choice' = IF event.type = "PermissionPending"
                                THEN TRUE ELSE permission_choice
        /\ push_tracked(event)
        /\ call' = Call("handle_event", Ok, <<>>, <<>>)
        /\ UNCHANGED <<tx, th_packet_id, ui_sends>>

\* CcrApp::send_user_input with a text that is not empty
send_user_input ==
    /\ publish_if_stream(TOPIC_USER_INPUT, InputPayload)
    /\ push_tracked(UserInput(made))
    /\ ui_sends' = ui_sends + 1
    /\ call' = Call("send_user_input", Ok, <<>>, <<>>)
    /\ UNCHANGED ui_vars

\* handle_line with allow or deny: the choice is set and
\* CcrApp::send_permission_response called; the decision of the event pushed
\* is 1 for allow and 0 for deny
send_permission_response(allow) ==
    IF pending_permission = <<>>
    THEN /\ call' = Call("send_permission_response", Ok, <<>>, <<>>)
         /\ ui_sends' = ui_sends + 1
         /\ UNCHANGED <<tx, th_packet_id, queue_vars, ui_vars>>
    ELSE LET rid == pending_permission[1] IN
         /\ permission_choice' = allow
         /\ publish_if_stream(TOPIC_PERM_RESPONSE, ResponsePayload(rid, allow))
         /\ push_tracked(PermissionResolved(rid, IF allow THEN 1 ELSE 0))
         /\ pending_permission' = <<>>
         /\ ui_sends' = ui_sends + 1
         /\ call' = Call("send_permission_response", Ok, <<>>, <<>>)

\* the MQTT thread, between two steps of the main loop, has set up the
\* stream (main.rs:773-778) or dropped it (831-837)
stream_change ==
    /\ th_stream' = ~th_stream
    /\ th_connected' = ~th_connected
    /\ UNCHANGED <<tx, th_packet_id, queue_vars, ui_vars, ui_sends, call>>

AppInit ==
    /\ auto_reconnect = TRUE
    /\ state = "Disconnected"
    /\ packet_id = 1
    /\ rx_buffer = <<>>
    /\ event_queue = <<>>
    /\ th_packet_id = 1
    /\ wire = <<>>
    /\ call = Call("new", Ok, <<>>, <<>>)
    /\ inflight = {}
    /\ allocs = 0
    /\ tx = <<>>
    /\ sent = <<>> /\ emitted = <<>> /\ polled = <<>>
    /\ QueueNew
    /\ script \in AppScripts
    /\ Unapplied
    /\ HostedNew
    /\ UiNew

\* what a step of the main loop leaves alone
AppOnly ==
    /\ UNCHANGED <<auto_reconnect, client_vars, wire, inflight, allocs,
                   stream_vars, script, applied>>
    /\ UNCHANGED <<running, mutex, mqtt_pc, ui_pc, local_id, issued, sessions,
                   waited, attempted, stopped_at>>

MainOnly == AppOnly /\ UNCHANGED <<th_connected, th_stream>>

AppNext ==
    \/ made < MaxPushes /\ handle_event(NextEvent(script, made)) /\ MainOnly
    \/ /\ made < MaxPushes /\ ui_sends < MaxAppSends
       /\ send_user_input /\ MainOnly
    \/ \E allow \in BOOLEAN :
          /\ made < MaxPushes /\ ui_sends < MaxAppSends
          /\ send_permission_response(allow) /\ MainOnly
    \/ stream_change /\ AppOnly

AppSpec == AppInit /\ [][AppNext]_vars

-----------------------------------------------------------------------------
(* The claims.                                                             *)

HandledAccepted(c) ==
    \E i \in 1..Len(c.handled) :
        c.handled[i].type = "Connack" /\ c.handled[i].code = Accepted

\* C1 (as claimed): connect() called in state Disconnected leaves the client
\* in state Connecting with no Connected event enqueued; the client enters
\* Connected, and a Connected event is enqueued, only in a process_data call
\* that handled a CONNACK with return code Accepted.
C1_ConnectAwaitsConnack ==
    [][ /\ (call'.op = "connect" /\ state = "Disconnected")
            => (state' = "Connecting" /\ event_queue' = event_queue)
        /\ (state # "Connected" /\ state' = "Connected")
            => (call'.op = "process_data" /\ HandledAccepted(call'))
        /\ (Len(event_queue') > Len(event_queue)
            /\ event_queue'[Len(event_queue')] = EvConnected)
            => (call'.op = "process_data" /\ HandledAccepted(call'))
      ]_vars

AllowedEdges ==
    { <<"Disconnected", "Connecting">>, <<"Connecting", "Connected">>,
      <<"Connecting", "Disconnected">>, <<"Connected", "Reconnecting">>,
      <<"Reconnecting", "Connecting">>, <<"Connected", "Disconnected">> }

\* C2 (as claimed): the connection state changes only along the edges
\* Disconnected->Connecting, Connecting->Connected, Connecting->Disconnected,
\* Connected->Reconnecting, Reconnecting->Connecting, Connected->Disconnected.
C2_OnlyAllowedEdges ==
    [][state' = state \/ <<state, state'>> \in AllowedEdges]_vars

\* C3: subscribe, unsubscribe, publish and ping called in a state other than
\* Connected return Err(NotConnected) and leave the state, the packet-id
\* counter, the accumulator and the event queue unchanged; called in state
\* Connected they return Ok.
C3_NotConnectedRejected ==
    [][ call'.op \in {"subscribe", "unsubscribe", "publish", "ping"}
        => IF state # "Connected"
           THEN call'.ret = ErrNotConnected /\ UNCHANGED client_vars
           ELSE call'.ret[1] = "Ok"
      ]_vars

\* a publish refused while the accumulator and the event queue hold
\* something and the counter has moved
C3_Witness ==
    /\ call.op = "publish" /\ call.ret = ErrNotConnected
    /\ state = "Disconnected"
    /\ rx_buffer # <<>> /\ event_queue # <<>> /\ packet_id > 1

LastHandledRefused(c) ==
    /\ c.op = "process_data" /\ c.handled # <<>>
    /\ c.handled[Len(c.handled)].type = "Connack"
    /\ c.handled[Len(c.handled)].code \in 1..5

\* C4 (as claimed): a process_data call that handles a CONNACK with a
\* rejection code 1..5 leaves the state Disconnected and enqueues
\* Error(ConnectionRefused(code)) with that code and no Connected event; the
\* state then stays Disconnected unless the next call is connect().
C4_RefusedStaysDisconnected ==
    [][ /\ (call'.op = "process_data" /\ Len(call'.handled) = 1
            /\ LastHandledRefused(call'))
            => /\ state' = "Disconnected"
               /\ event_queue'
                    = Append(event_queue, EvConnectionRefused(call'.handled[1].code))
        /\ (LastHandledRefused(call) /\ state = "Disconnected"
            /\ state' # "Disconnected")
            => call'.op = "connect"
      ]_vars

\* C5: connect() called in a state other than Disconnected returns Ok and
\* changes nothing: state, packet-id counter, accumulator and event queue.
C5_ConnectNoOp ==
    [][ (call'.op = "connect" /\ state # "Disconnected")
        => (call'.ret = Ok /\ UNCHANGED client_vars)
      ]_vars

\* connect() was called while Connected and the queue holds no Connected event
C5_Witness ==
    /\ call.op = "connect" /\ state = "Connected"
    /\ event_queue = <<>> /\ rx_buffer # <<>> /\ packet_id > 1

\* C6: disconnect() called in state Connected sets the state to Disconnected
\* and enqueues exactly one Disconnected event; called in any other state it
\* returns Ok and changes neither the state nor the event queue.
C6_Disconnect ==
    [][ call'.op = "disconnect"
        => /\ call'.ret = Ok
           /\ IF state = "Connected"
              THEN /\ state' = "Disconnected"
                   /\ event_queue' = Append(event_queue, EvDisconnected)
              ELSE UNCHANGED <<state, event_queue>>
      ]_vars

\* disconnect() has acted in state Connected: its event is the newest one
C6_Witness ==
    /\ call.op = "disconnect" /\ state = "Disconnected"
    /\ event_queue # <<>> /\ event_queue[Len(event_queue)] = EvDisconnected

\* C7 (as claimed): a transport loss signalled while the client is Connected
\* moves it to Reconnecting if auto_reconnect is configured and to
\* Disconnected otherwise, and enqueues a Disconnected event.
C7_TransportLossHandled ==
    [][ (call'.op = "transport_lost" /\ state = "Connected")
        => /\ state' = IF auto_reconnect THEN "Reconnecting" ELSE "Disconnected"
           /\ event_queue' = Append(event_queue, EvDisconnected)
      ]_vars

\* C8: the allocator never returns 0 and never leaves 0 in the counter: the
\* n-th allocation (n = 1, 2, ...) returns ((n - 1) mod 65535) + 1, that is
\* 1, 2, ..., 65535, 1, 2, ..., for the client and for the hosted thread state.
C8_NeverZero ==
    /\ packet_id \in 1..(U16 - 1)
    /\ th_packet_id \in 1..(U16 - 1)
    /\ ReturnedId(call) => call.ret[2] = ((allocs - 1) % (U16 - 1)) + 1

\* the allocation after 65535 has returned 1, not 0
C8_Witness ==
    /\ call.op = "publish" /\ call.ret = OkSome(1)
    /\ allocs = U16

\* C9 (as claimed): the packet ids of the requests issued by subscribe,
\* unsubscribe and publish (QoS > 0) and not yet acknowledged are pairwise
\* distinct.
C9_InFlightDistinct ==
    \A a, b \in inflight : a # b => a.id # b.id

-----------------------------------------------------------------------------
(* C10: what process_data must do, computed from parse_packet alone.       *)

\* the successful parses of the packets at the front of buf, in stream order,
\* up to the first parse that fails
RECURSIVE PacketsIn(_)
PacketsIn(buf) ==
    LET r == parse_packet(buf) IN
    IF r.err = "" THEN <<r>> \o PacketsIn(Drop(buf, r.consumed)) ELSE <<>>

RECURSIVE ConsumedBy(_)
ConsumedBy(rs) ==
    IF rs = <<>> THEN 0 ELSE Head(rs).consumed + ConsumedBy(Tail(rs))

\* the events the dispatch of one packet enqueues
EventsOfPacket(p) ==
    CASE p.type = "Connack" ->
            <<IF p.code = Accepted THEN EvConnected ELSE EvConnectionRefused(p.code)>>
      [] p.type = "Publish" -> <<EvMessage(p.topic, p.payload)>>
      [] p.type = "Puback" -> <<EvPublishAcked(p.packet_id)>>
      [] p.type = "Pubcomp" -> <<EvPublishComplete(p.packet_id)>>
      [] p.type = "Suback" -> <<EvSubscribed(p.packet_id)>>
      [] OTHER -> <<>>

RECURSIVE EventsOf(_)
EventsOf(ps) ==
    IF ps = <<>> THEN <<>> ELSE EventsOfPacket(Head(ps)) \o EventsOf(Tail(ps))

\* C10: process_data parses the accumulator followed by the new bytes: every
\* packet complete in it is dispatched once, in stream order, and exactly its
\* consumed bytes are removed from the front (the events enqueued are those
\* of the packets, in that order); when the loop stops on Incomplete, the
\* bytes not parsed are what the accumulator holds after the call.
C10_ProcessDataFrames ==
    [][ call'.op = "process_data"
        => LET buf == rx_buffer \o call'.data
               ps == PacketsIn(buf)
               rest == Drop(buf, ConsumedBy(ps))
           IN  /\ call'.handled = [i \in 1..Len(ps) |-> ps[i].packet]
               /\ event_queue' = event_queue \o EventsOf(call'.handled)
               /\ parse_packet(rest).err = "Incomplete" => rx_buffer' = rest
      ]_vars

\* one call was given the end of a packet, a whole packet and the start of
\* the next: two packets dispatched, the unparsed bytes kept
C10_Witness ==
    /\ call.op = "process_data"
    /\ Len(call.handled) >= 2
    /\ parse_packet(call.data).err \notin {"", "Incomplete"}
    /\ rx_buffer # <<>> /\ wire # <<>>

-----------------------------------------------------------------------------
(* C11 - C17: streams, events and acknowledgements.                        *)

\* the packets at the front of buf
PacketsOf(buf) ==
    LET ps == PacketsIn(buf) IN [i \in 1..Len(ps) |-> ps[i].packet]

\* s is a concatenation of packets parse_packet accepts
ValidStream(s) == ConsumedBy(PacketsIn(s)) = Len(s)

\* C11: for a stream that is a concatenation of valid inbound packets, the
\* events enqueued so far are, however the stream was cut into process_data
\* calls, the events of the packets whose last byte has been delivered: one
\* event per packet, in stream order, none early, none twice.
C11_CutIndependent ==
    ValidStream(sent \o wire) => emitted = EventsOf(PacketsOf(sent))

\* a call given one byte, the last of a packet, after other packets of the
\* stream were delivered in other cuts
C11_Witness ==
    /\ ValidStream(sent \o wire)
    /\ call.op = "process_data" /\ Len(call.data) = 1 /\ Len(call.handled) = 1
    /\ Len(emitted) >= 2 /\ wire # <<>>

\* the parse loop on buf stops on an error other than Incomplete
HardError(buf) ==
    parse_packet(Drop(buf, ConsumedBy(PacketsIn(buf)))).err \notin {"", "Incomplete"}

\* C12 (as claimed): when the parse loop stops on InvalidFormat, UnknownType
\* or InvalidUtf8, process_data empties the accumulator and enqueues an error
\* event for the parse failure.
C12_ParseErrorReported ==
    [][ (call'.op = "process_data" /\ HardError(rx_buffer \o call'.data))
        => /\ rx_buffer' = <<>>
           /\ \E i \in (Len(event_queue) + 1)..Len(event_queue') :
                 /\ event_queue'[i].type = "Error"
                 /\ event_queue'[i].error # "ConnectionRefused"
      ]_vars

\* the bytes tried as further input, and how many of them
CompletionBytes == {0, 2, 4, 116}
MaxCompletion == 5
Completions == UNION {[1..n -> CompletionBytes] : n \in 1..MaxCompletion}

\* C13 (as claimed): whenever parse_packet returns Incomplete for the
\* accumulator, some further bytes make it return something else.
C13_IncompleteRecoverable ==
    parse_packet(rx_buffer).err = "Incomplete"
    => \E more \in Completions : parse_packet(rx_buffer \o more).err # "Incomplete"

\* C14: poll returns the events one per call in the order they were
\* enqueued, none skipped, reordered or returned twice, and nothing when the
\* queue is empty: the events enqueued so far are always the events polled
\* so far followed by the events still queued.
C14_PollFifo ==
    emitted = polled \o event_queue

\* two events were polled while a third, enqueued after them, waits
C14_Witness ==
    /\ call.op = "poll" /\ Len(polled) >= 2 /\ event_queue # <<>>
    /\ call.ret = <<"Some", polled[Len(polled)]>>

\* C15 (as claimed): a PublishAcked or PublishComplete event is enqueued only
\* for the packet id of a publish of this client that is not yet acknowledged.
C15_AckOnlyForPublish ==
    [][ \A i \in (Len(event_queue) + 1)..Len(event_queue') :
          event_queue'[i].type \in {"PublishAcked", "PublishComplete"}
          => \E r \in inflight :
                r.op = "publish" /\ r.id = event_queue'[i].packet_id
      ]_vars

\* process_data handled exactly one packet, of this type, for a publish in flight
HandledFor(c, type) ==
    /\ c.op = "process_data" /\ Len(c.handled) = 1
    /\ c.handled[1].type = type
    /\ \E r \in inflight : r.op = "publish" /\ r.id = c.handled[1].packet_id

\* C16 (as claimed): for a publish in flight with id p, processing PUBREC(p)
\* enqueues no event and hands PUBREL(p) to the transport; processing
\* PUBCOMP(p) enqueues exactly PublishComplete{p}.
C16_Qos2Handshake ==
    [][ /\ HandledFor(call', "Pubrec")
            => /\ event_queue' = event_queue
               /\ tx' = tx \o build_pubrel(call'.handled[1].packet_id)
        /\ HandledFor(call', "Pubcomp")
            => event_queue'
                 = Append(event_queue, EvPublishComplete(call'.handled[1].packet_id))
      ]_vars

\* the acknowledgement an inbound PUBLISH requires
AckFor(p) ==
    CASE p.qos = AtMostOnce -> <<>>
      [] p.qos = AtLeastOnce -> build_puback(p.packet_id[1])
      [] p.qos = ExactlyOnce -> build_pubrec(p.packet_id[1])

\* C17 (as claimed): processing an inbound PUBLISH enqueues exactly one
\* Message event with its topic and payload and hands to the transport the
\* acknowledgement its QoS requires: nothing, PUBACK(p) or PUBREC(p).
C17_InboundPublishAcked ==
    [][ (call'.op = "process_data" /\ Len(call'.handled) = 1
         /\ call'.handled[1].type = "Publish")
        => /\ event_queue' = Append(event_queue,
                                    EvMessage(call'.handled[1].topic,
                                              call'.handled[1].payload))
           /\ tx' = tx \o AckFor(call'.handled[1])
      ]_vars

-----------------------------------------------------------------------------
(* C18 - C20: the event queue.                                             *)

\* the events pushed since new() or clear() that a queue of MAX_EVENTS keeps
Survivors ==
    LET m == Len(pushed)
    IN  SubSeq(pushed, (IF m > MAX_EVENTS THEN m - MAX_EVENTS ELSE 0) + 1, m)

\* C18: count never exceeds MAX_EVENTS; a push on a full queue removes the
\* entry at head (the oldest), moves head on by one and inserts the new
\* event as the newest, so len() stays MAX_EVENTS.
C18_CountBounded ==
    [][ /\ count <= MAX_EVENTS /\ count' <= MAX_EVENTS
        /\ (Len(pushed') = Len(pushed) + 1 /\ count = MAX_EVENTS)
            => /\ len(EventQueue') = MAX_EVENTS
               /\ head' = (head + 1) % MAX_EVENTS
               /\ \A i \in 0..(MAX_EVENTS - 2) :
                     get(EventQueue', i) = get(EventQueue, i + 1)
               /\ get(EventQueue', MAX_EVENTS - 1) = <<pushed'[Len(pushed')]>>
      ]_vars

\* a full queue that has evicted
C18_Witness ==
    count = MAX_EVENTS /\ Len(pushed) > MAX_EVENTS + 1 /\ head > 1

\* C19: after m pushes onto a new or just cleared queue, len() is
\* min(m, MAX_EVENTS); get(i) for i < len() is the event pushed as number
\* max(0, m - MAX_EVENTS) + i, so get(0) is the oldest survivor and
\* get(len() - 1) the newest event; get(i) for i >= len() is None.
C19_GetLogicalOrder ==
    LET q == EventQueue
        m == Len(pushed)
        lost == IF m > MAX_EVENTS THEN m - MAX_EVENTS ELSE 0
    IN  /\ len(q) = Min(m, MAX_EVENTS)
        /\ \A i \in 0..(MAX_EVENTS + 1) :
              get(q, i) = IF i < len(q) THEN <<pushed[lost + i + 1]>> ELSE <<>>

\* MAX_EVENTS + 5 events pushed onto a queue that was cleared before: the
\* oldest 5 are lost
C19_Witness ==
    /\ Len(pushed) = MAX_EVENTS + 5 /\ made > Len(pushed)
    /\ get(EventQueue, 0) = <<pushed[6]>>

\* the survivor of the smallest index among found, as (logical index, event)
FirstOf(found) ==
    IF found = {} THEN <<>>
    ELSE LET i == CHOOSE i \in found : \A j \in found : i <= j
         IN  << <<i - 1, Survivors[i]>> >>

\* C20: find_pending_permission returns (i, get(i)) for the smallest logical
\* index i whose event is a PermissionPending, find_by_request_id(id) for
\* the smallest i whose event's request_id() is id; each returns None when
\* no entry matches, on an empty queue and after wrap-around too.
C20_FindFirst ==
    /\ find_pending_permission(EventQueue)
         = FirstOf({i \in 1..Len(Survivors) : Survivors[i].type = "PermissionPending"})
    /\ \A rid \in RequestIds :
          find_by_request_id(EventQueue, rid)
            = FirstOf({i \in 1..Len(Survivors) :
                         /\ Survivors[i].type \in {"PermissionPending",
                                                   "PermissionResolved",
                                                   "PermissionTimeout"}
                         /\ Survivors[i].request_id = rid})

\* after wrap-around: a pending permission is found behind older events,
\* one request id is found and another is not
C20_Witness ==
    /\ head > 0 /\ count = MAX_EVENTS
    /\ find_pending_permission(EventQueue) # <<>>
    /\ find_pending_permission(EventQueue)[1][1] > 0
    /\ find_by_request_id(EventQueue, "a") # <<>>
    /\ find_by_request_id(EventQueue, "c") = <<>>

\* the value of EventQueue::new()
NewQueue ==
    [events |-> [i \in 0..(MAX_EVENTS - 1) |-> <<>>],
     head |-> 0, tail |-> 0, count |-> 0]

\* C21: clear() on an EventQueue in any reachable state leaves a queue equal
\* to a new one in every field: len() is 0, every slot holds no event, head
\* and tail are 0; the queue after the clear being the queue new() returns,
\* every later push and get behaves as on a fresh queue.
C21_ClearIsNew ==
    [][ (made' = made)
          => /\ EventQueue' = NewQueue
             /\ len(EventQueue') = 0
             /\ \A i \in 0..(MAX_EVENTS - 1) : get(EventQueue', i) = <<>> ]_queue_vars

\* a queue that had wrapped around was cleared and pushed to again: the new
\* events are read from index 0 on, as on a fresh queue
C21_Witness ==
    /\ made > MAX_EVENTS + 2
    /\ Len(pushed) = 2
    /\ head = 0 /\ tail = 2 /\ count = 2
    /\ get(EventQueue, 0) = <<pushed[1]>>
    /\ get(EventQueue, 1) = <<pushed[2]>>
    /\ \A i \in 2..(MAX_EVENTS - 1) : events[i] = <<>>

\* the result of the application in progress, once the function was applied
Applied(fn) == applied.fn = fn /\ applied.output # <<>>
Output == applied.output[1]

\* the fewest 7-bit groups that hold n
MinimalBytes(n) ==
    IF n <= 127 THEN 1
    ELSE IF n <= 16383 THEN 2
    ELSE IF n <= 2097151 THEN 3
    ELSE 4

\* C22: for every remaining length n in 0..268,435,455,
\* encode_remaining_length emits the minimal number of bytes (1 for n <= 127,
\* 2 for n <= 16383, 3 for n <= 2,097,151, else 4) with the continuation bit
\* set on all but the last, and decode_remaining_length of those bytes
\* returns (n, number of bytes emitted); 127 -> [127], 128 -> [0x80, 0x01],
\* 16383 -> [0xFF, 0x7F].
C22_RemainingLengthRoundTrip ==
    (Applied("remaining_length") /\ applied.input[1] <= MaxRemainingLength)
      => LET n == applied.input[1]
             bytes == Output.bytes
         IN  /\ Len(bytes) = MinimalBytes(n)
             /\ \A i \in 1..Len(bytes) : BitSet(bytes[i], 7) <=> i < Len(bytes)
             /\ Output.decoded = << <<n, Len(bytes)>> >>
             /\ n = 127 => bytes = <<127>>
             /\ n = 128 => bytes = <<128, 1>>
             /\ n = 16383 => bytes = <<255, 127>>

\* the largest length was encoded in four bytes and read back
C22_Witness ==
    /\ Applied("remaining_length")
    /\ applied.input = <<MaxRemainingLength>>
    /\ Output.bytes = <<255, 255, 255, 127>>
    /\ Output.decoded = << <<MaxRemainingLength, 4>> >>

\* C23 (as claimed): encode_remaining_length fails for every
\* len > 268,435,455, and so never emits more than 4 length bytes.
C23_EncodeRejectsTooLong ==
    Applied("remaining_length")
      => /\ applied.input[1] > MaxRemainingLength => Output.failed
         /\ ~Output.failed => Len(Output.bytes) <= MaxLengthBytes

\* C24 (as claimed): for every topic, payload and QoS,
\* parse_packet(build_publish(topic, payload, qos)) succeeds and returns a
\* Publish with the same topic, payload and QoS, and a consumed length equal
\* to the length of the built packet.
C24_PublishRoundTrip ==
    Applied("publish")
      => /\ Output.parsed.err = ""
         /\ Output.parsed.packet.type = "Publish"
         /\ Output.parsed.packet.topic = applied.input[1]
         /\ Output.parsed.packet.payload = applied.input[2]
         /\ Output.parsed.packet.qos = applied.input[3]
         /\ Output.parsed.consumed = Len(Output.bytes)

AckVariant(kind) ==
    CASE kind = "puback" -> "Puback"
      [] kind = "pubrec" -> "Pubrec"
      [] kind = "pubrel" -> "Pubrel"
      [] kind = "pubcomp" -> "Pubcomp"

\* C25: for every 16-bit packet identifier id, each of build_puback,
\* build_pubrec, build_pubrel and build_pubcomp produces a 4-byte packet
\* (PUBREL with the low nibble 0010 in its fixed header, the others 0000),
\* and parse_packet of it returns the matching variant with packet_id = id
\* and consumed = 4.
C25_AckRoundTrip ==
    (applied.fn \in AckBuilders /\ applied.output # <<>>)
      => /\ Len(Output.bytes) = 4
         /\ Output.bytes[1] % 16 = (IF applied.fn = "pubrel" THEN 2 ELSE 0)
         /\ Output.parsed =
               [err |-> "",
                packet |-> [type |-> AckVariant(applied.fn),
                            packet_id |-> applied.input[1]],
                consumed |-> 4]

\* PUBREL was built for the largest identifier and parsed back
C25_Witness ==
    /\ Applied("pubrel")
    /\ applied.input = <<U16 - 1>>
    /\ Output.bytes = <<98, 2, 255, 255>>
    /\ Output.parsed.packet = [type |-> "Pubrel", packet_id |-> U16 - 1]

\* C26: for any complete packet P that parse_packet accepts and any byte
\* string X, parse_packet(P ++ X) returns the same packet as parse_packet(P)
\* with consumed = len(P); no field of the result depends on X.
C26_ParseStopsAtBoundary ==
    (Applied("followed") /\ Output.alone.err = "")
      => /\ Output.followed = Output.alone
         /\ Output.followed.consumed = Len(applied.input[1])

\* a SUBACK with two return codes was parsed with three more bytes behind
\* it, and a PUBLISH with the start of another PUBLISH behind it
C26_Witness ==
    /\ Applied("followed")
    /\ Len(applied.input[2]) = MaxExtra
    /\ Output.alone.err = ""
    /\ \/ /\ Output.followed.packet.type = "Suback"
          /\ Output.followed.packet.return_codes = <<1, 128>>
       \/ /\ Output.followed.packet.type = "Publish"
          /\ Output.followed.packet.payload = <<120, 121>>
          /\ applied.input[2][1] = Publish * 16

\* a thread is inside next_packet_id: it has read the counter and has yet
\* to write it
InsideNextPacketId(t) ==
    IF t = "ui" THEN ui_pc \in {"ui_load", "ui_store"}
    ELSE mqtt_pc \in {"sub1_load", "sub1_store", "sub2_load", "sub2_store"}

\* C27: in hosted mode every call of MqttThreadState::next_packet_id, from
\* the UI thread and from the MQTT thread, happens while the shared mutex is
\* held by the caller; under every interleaving no increment is lost (the
\* counter is 1 + the number of identifiers returned) and no two allocations
\* return the same identifier.
C27_CounterUnderMutex ==
    /\ \A t \in {"ui", "mqtt"} : InsideNextPacketId(t) => mutex = t
    /\ th_packet_id = Len(issued) + 1
    /\ \A i, j \in 1..Len(issued) : i # j => issued[i][2] # issued[j][2]

\* the MQTT thread waits for the mutex while the UI thread is between the
\* read and the write of the counter, after allocations by both threads
C27_Witness ==
    /\ mutex = "ui" /\ ui_pc = "ui_store"
    /\ mqtt_pc = "lock_subscribe"
    /\ \E i, j \in 1..Len(issued) : issued[i][1] = "ui" /\ issued[j][1] = "mqtt"

\* C28: once the keep-running flag is cleared, mqtt_thread_main eventually
\* exits, wherever it is in its connect / CONNACK / subscribe / poll /
\* retry-wait cycle, under fair scheduling and with every blocking call
\* returning.
C28_StopLeadsToExit == (~running) ~> (mqtt_pc = "exited")

\* the flag was cleared while the thread slept in its poll loop, and the
\* thread has left the loop, closed the session and exited
C28_Witness ==
    /\ ~running
    /\ stopped_at = "poll_sleep"
    /\ mqtt_pc = "exited"
    /\ ~th_connected

\* C29 (as claimed): every TcpStream::connect after the first is preceded by
\* the retry wait: the thread has slept the retry delay since its last
\* connection attempt.
C29_RetryWaitBeforeConnect ==
    [][ (mqtt_pc = "connect" /\ mqtt_pc' # "connect" /\ attempted) => waited ]_vars

\* the field of the event that holds the value of the long string field
LongField(event) ==
    LET i == CHOOSE k \in 1..Len(event.keys) : event.keys[k] \in {"text", "output"}
    IN  event.values[i]

\* C30 (as claimed): for a JSON payload whose string field value is longer
\* than MAX_TEXT_LEN bytes, from_json does not panic and stores that field
\* with length exactly MAX_TEXT_LEN, also when a multi-byte character or a
\* backslash escape is at the cut.
C30_TruncatesWithoutPanic ==
    (Applied("from_json") /\ Len(applied.input[2]) > MAX_TEXT_LEN)
      => /\ ~Output.panic
         /\ Output.event # <<>>
         /\ Len(LongField(Output.event[1])) = MAX_TEXT_LEN

\* what a JSON string value denotes, for values made of letters and two-byte
\* escapes: each of \n \r \t \" \\ \/ is the character it stands for, any
\* other escaped character stays behind its backslash
DenotedByte(c) ==
    CASE c = 110 -> <<10>>
      [] c = 114 -> <<13>>
      [] c = 116 -> <<9>>
      [] c = Quote -> <<Quote>>
      [] c = Backslash -> <<Backslash>>
      [] c = 47 -> <<47>>
      [] OTHER -> <<Backslash, c>>

RECURSIVE Denoted(_)
Denoted(value) ==
    IF value = <<>> THEN <<>>
    ELSE IF value[1] = Backslash /\ Len(value) >= 2
         THEN DenotedByte(value[2]) \o Denoted(Drop(value, 2))
         ELSE <<value[1]>> \o Denoted(Tail(value))

\* C31 (as claimed): a string field parsed by from_json has each escape
\* \n \r \t \" \\ \/ of the JSON value replaced by the character it denotes
\* (a value with an escaped double quote is stored in full, with the quote),
\* and every other escaped character kept with its backslash.
C31_EscapesUnescaped ==
    (Applied("from_json") /\ applied.input[2] \in EscapedValues)
      => /\ ~Output.panic
         /\ Output.event # <<>>
         /\ LongField(Output.event[1]) = Denoted(applied.input[2])

-----------------------------------------------------------------------------
(* C32 - C37: the client's handling of packets and calls.                  *)

IsPublish(p) == p.type = "Publish"
IsMessage(e) == e.type = "Message"

\* C32: the client does not de-duplicate inbound QoS-2 PUBLISH packets: the
\* Message events enqueued so far are one per PUBLISH packet delivered, in
\* order, also when two of them carry the same packet identifier.
C32_NoDedupOnReceive ==
    ValidStream(sent \o wire)
      => LET pubs == SelectSeq(PacketsOf(sent), IsPublish)
             msgs == SelectSeq(emitted, IsMessage)
         IN  msgs = [i \in 1..Len(pubs) |-> EvMessage(pubs[i].topic, pubs[i].payload)]

\* a QoS-2 PUBLISH and its redelivery with the same packet id were both
\* delivered, and the application has two equal Message events
C32_Witness ==
    LET pubs == SelectSeq(PacketsOf(sent), IsPublish) IN
    /\ Len(pubs) = 2
    /\ pubs[1].qos = ExactlyOnce /\ pubs[2].qos = ExactlyOnce
    /\ pubs[1].packet_id = pubs[2].packet_id
    /\ ~pubs[1].dup /\ pubs[2].dup
    /\ event_queue = <<EvMessage(<<116>>, <<120>>), EvMessage(<<116>>, <<120>>)>>

\* the QoS in the flags of a PUBLISH
QoSOf(bytes) == Shr(bytes[1], 1) % 4

\* the bytes of a PUBLISH between its topic and its payload, the topic of
\* the model being one byte long and the payload one byte
IdBytes(bytes) == SubSeq(bytes, 6, Len(bytes) - 1)

\* C33: publish() with QoS AtMostOnce returns Ok(None), builds a PUBLISH
\* with no packet identifier and leaves the counter unchanged; with QoS
\* AtLeastOnce or ExactlyOnce it returns Ok(Some(id)), id being the value of
\* the counter, encodes id in the PUBLISH and advances the counter by one
\* step (from 65535 to 1).
C33_PublishAllocates ==
    [][ (call'.op = "publish" /\ state = "Connected")
        => IF QoSOf(call'.data) = AtMostOnce
           THEN /\ call'.ret = Ok
                /\ IdBytes(call'.data) = <<>>
                /\ packet_id' = packet_id
           ELSE /\ call'.ret = OkSome(packet_id)
                /\ IdBytes(call'.data) = <<Hi(packet_id), Lo(packet_id)>>
                /\ packet_id' = (IF packet_id = U16 - 1 THEN 1 ELSE packet_id + 1)
      ]_vars

\* a QoS-2 publish was given the id 65535 and left the counter at 1
C33_Witness ==
    /\ call.op = "publish"
    /\ call.ret = OkSome(U16 - 1)
    /\ QoSOf(call.data) = ExactlyOnce
    /\ IdBytes(call.data) = <<255, 255>>
    /\ packet_id = 1

-----------------------------------------------------------------------------
(* C34: the reads of the hosted thread.                                    *)

\* C34: the messages the hosted thread has forwarded to the main loop are,
\* however the reads cut the stream, one per complete PUBLISH packet read so
\* far, in order, each with the topic and the payload of its packet.
C34_ForwardsEachPublish ==
    LET pubs == SelectSeq(PacketsOf(sent), IsPublish) IN
    emitted = [i \in 1..Len(pubs) |-> [topic |-> pubs[i].topic,
                                       payload |-> pubs[i].payload]]

-----------------------------------------------------------------------------
(* C38: the ring of the EventQueue.                                        *)

\* C38: in every reachable state of the EventQueue head and tail are below
\* 64, tail is (head + count) mod 64, slot (head + i) mod 64 holds an event
\* exactly when i < count, and get(i) is not absent for any i < count.
C38_RingInvariant ==
    /\ head \in 0..(MAX_EVENTS - 1)
    /\ tail \in 0..(MAX_EVENTS - 1)
    /\ tail = (head + count) % MAX_EVENTS
    /\ \A i \in 0..(MAX_EVENTS - 1) :
          (events[(head + i) % MAX_EVENTS] # <<>>) <=> (i < count)
    /\ \A i \in 0..(count - 1) : get(EventQueue, i) # <<>>

\* a full queue that has evicted events: head and tail meet inside the ring
C38_Witness ==
    /\ count = MAX_EVENTS
    /\ made > MAX_EVENTS + 1
    /\ head = tail /\ head > 1
    /\ get(EventQueue, MAX_EVENTS - 1) = <<NextEvent(script, made - 1)>>

-----------------------------------------------------------------------------
(* C40: the connection fields of MqttThreadState.                          *)

\* C40: whenever the mutex around MqttThreadState is not held, connected is
\* true exactly when stream is Some, under every interleaving of the MQTT
\* thread and the UI thread.
C40_ConnectedIffStream ==
    mutex = "free" => (th_connected <=> th_stream)

\* the MQTT thread holds the mutex between the two assignments, the stream
\* set and the flag not yet, after the UI thread has sent
C40_Witness ==
    /\ mutex = "mqtt"
    /\ mqtt_pc = "set_connected_flag"
    /\ th_stream /\ ~th_connected
    /\ ui_sends > 0

-----------------------------------------------------------------------------
(* C35, C39: the permission dialogue of the application.                   *)

\* C35: a call of send_permission_response with a request pending appends
\* the PermissionResolved event and clears the pending permission only if
\* the response PUBLISH was written to the stream; with no stream the
\* request stays pending and nothing is appended.
C35_RecordedOnlyIfSent ==
    [][ ( /\ call'.op = "send_permission_response"
          /\ ui_sends' = ui_sends + 1
          /\ pending_permission # <<>> )
        => /\ (pending_permission' = <<>> \/ made' # made) => tx' # tx
           /\ ~th_stream => (pending_permission' = pending_permission /\ made' = made)
      ]_vars

\* C39: after every step of the application, a pending permission Some(id)
\* has its PermissionPending event in the queue, and find_by_request_id(id)
\* is not absent.
C39_PendingInQueue ==
    pending_permission # <<>>
      => /\ \E i \in 0..(count - 1) :
               /\ is_permission_pending(get(EventQueue, i)[1])
               /\ request_id(get(EventQueue, i)[1]) = pending_permission
         /\ find_by_request_id(EventQueue, pending_permission[1]) # <<>>

-----------------------------------------------------------------------------
(* C36: the dispatch of the packets other than CONNACK.                    *)

Silent == {"Unsuback", "Pingresp", "Pubrec", "Pubrel"}

\* the connection state after the CONNACK packets among ps
RECURSIVE StateAfter(_, _)
StateAfter(st, ps) ==
    IF ps = <<>> THEN st
    ELSE StateAfter(IF Head(ps).type # "Connack" THEN st
                    ELSE IF Head(ps).code = Accepted THEN "Connected"
                    ELSE "Disconnected",
                    Tail(ps))

\* C36: a call of process_data changes the connection state by the CONNACK
\* packets it dispatches only and never the packet-id counter; the events it
\* enqueues are those of the packets dispatched whatever the connection
\* state is; UNSUBACK, PINGRESP, PUBREC and PUBREL enqueue nothing.
C36_OnlyConnackChangesState ==
    [][ call'.op = "process_data"
        => LET h == call'.handled IN
           /\ state' = StateAfter(state, h)
           /\ packet_id' = packet_id
           /\ event_queue' = event_queue \o EventsOf(h)
           /\ (\A i \in 1..Len(h) : h[i].type \in Silent) => event_queue' = event_queue
      ]_vars

\* in state Connected a call has dispatched an UNSUBACK and a PUBREC, and the
\* only event so far is that of the CONNACK
C36_Witness ==
    /\ state = "Connected"
    /\ call.op = "process_data"
    /\ Len(call.handled) = 2
    /\ call.handled[1].type = "Unsuback" /\ call.handled[2].type = "Pubrec"
    /\ emitted = <<EvConnected>>

-----------------------------------------------------------------------------
(* C37: state changes and their events.                                    *)

\* an operation took the client from c to d, records of state and
\* event_queue: if the state changed, exactly one event was enqueued, and it
\* is Connected, Disconnected or Error(ConnectionRefused); a Connected or
\* Disconnected event enqueued tells the state d is in
AnnouncedChange(c, d) ==
    LET added == Drop(d.event_queue, Len(c.event_queue)) IN
    /\ d.state # c.state
         => /\ d.event_queue = c.event_queue \o added
            /\ Len(added) = 1
            /\ \/ added[1] \in {EvConnected, EvDisconnected}
               \/ added[1].type = "Error" /\ added[1].error = "ConnectionRefused"
    /\ \A i \in 1..Len(added) :
          /\ added[i] = EvConnected => d.state = "Connected"
          /\ added[i] = EvDisconnected => d.state = "Disconnected"

\* the client after each of the dispatches of ps, one after the other, from c
RECURSIVE Dispatches(_, _)
Dispatches(c, ps) ==
    IF ps = <<>> THEN <<c>>
    ELSE <<c>> \o Dispatches(handle_packet(c, Head(ps)), Tail(ps))

====
